---- MODULE Spec2Model ----
(***************************************************************************)
(* MineFlow UI: grid indexing, boundary test, statistics, the instanced    *)
(* render set (BlockInstances) and the excavation surface mesh             *)
(* (SurfaceMesh).                                                          *)
(*                                                                         *)
(* Conventions.  The arrays the components build (vertices, indices,       *)
(* positions, instanceToBlockIndex, ...) are sequences: a[i] of the source *)
(* is a[i + 1] here.  The typed arrays of a model (values, minedBlocks)    *)
(* are kept as their length and a repeating unit, so that a grid of        *)
(* 250000 blocks is a small value: element i is unit[(i mod Len(unit))+1]. *)
(* A typed array given in full is its own unit.  Render-space coordinates  *)
(* are kept DOUBLED (2 * coordinate), because the centre offsets nx/2,     *)
(* ny/2, nz/2 and the face corners +-0.5 are half-integers.                *)
(*                                                                         *)
(* The render set of BlockInstances is the value of a useMemo: a function  *)
(* of the props, RenderSet below, not a variable.                          *)
(***************************************************************************)
EXTENDS Integers, Sequences, FiniteSets, TLC

VARIABLES blockModel, minedBlocks, viewMode, currentLayer, sliceDimension,
          colorScheme, showWireframe, call,
          isLoading, error, dataFilePath, solveCount, numBlocksMined, pending,
          hoveredBlock, run, tempDir

vars == <<blockModel, minedBlocks, viewMode, currentLayer, sliceDimension,
          colorScheme, showWireframe, call,
          isLoading, error, dataFilePath, solveCount, numBlocksMined, pending,
          hoveredBlock, run, tempDir>>

view == <<viewMode, currentLayer, sliceDimension, colorScheme, showWireframe>>

\* The state of App besides the model and the view.  solveResult is held in
\* two variables: minedBlocks (the prop of the components, NoMask for a null
\* solveResult) and numBlocksMined.  pending is the sequence of the
\* asynchronous operations App is waiting for, in the order they were started.
app == <<isLoading, error, dataFilePath, solveCount, numBlocksMined, pending>>

\* The main process: run is the position and the locals of runMineflow,
\* tempDir the directory it makes and the output file in it.  hoveredBlock is
\* the state of Visualization3D.
solver == <<run, tempDir>>

(***************************************************************************)
(* Bounds of the model.                                                    *)
(***************************************************************************)
\* grids have 1..MaxDim blocks along each axis
MaxDim == 3
\* grids have at most MaxBlocks blocks (and there is the 3x3x3 grid of
\* InteriorModel, the smallest grid with a block that has six neighbours)
MaxBlocks == 8
\* the render set is built for small grids of at most MaxRenderBlocks blocks
\* (and for the large grid of LargeModel)
MaxRenderBlocks == 6

Min(a, b) == IF a < b THEN a ELSE b
Max(a, b) == IF a > b THEN a ELSE b
Abs(a) == IF a < 0 THEN -a ELSE a

\* the JavaScript array of the n elements f[1], ..., f[n]
Array(f, n) == SubSeq(f, 1, n)

\* An optional Uint8Array (minedBlocks?: Uint8Array): NoMask is undefined.
NoMask == [defined |-> FALSE]
MaskValue(bits) == [defined |-> TRUE, bits |-> bits]

\* typed arrays (Int32Array, Uint8Array): length and repeating unit
TypedArray(n, unit) == [length |-> n, unit |-> unit]
Full(seq) == TypedArray(Len(seq), seq)
Length(a) == a.length
\* a[i], for an index i of a
Elem(a, i) == a.unit[(i % Len(a.unit)) + 1]
\* i is an index of the typed array a (a[i] is not undefined)
InArray(a, i) == 0 <= i /\ i < Length(a)
\* a[i] === 1, and !a[i], for a Uint8Array a of 0/1
IsOne(a, i) == InArray(a, i) /\ Elem(a, i) = 1
IsFalsy(a, i) == ~InArray(a, i) \/ Elem(a, i) = 0

\* currentLayer: number | null; null is the slider's -1 (Controls)
NoLayer == -1

(***************************************************************************)
(* lib/blockModel: getBlockIndex, getBlockCoords                           *)
(***************************************************************************)
getBlockIndex(x, y, z, nx, ny) == x + y * nx + z * nx * ny

\* a % b of JavaScript for b > 0: the result has the sign of a
JsRem(a, b) == IF a >= 0 THEN a % b ELSE -((-a) % b)

\* getBlockCoords with the row length used for the y wrap-around
getBlockCoords_yModNx(index, nx, ny) ==
    [x |-> JsRem(index, nx),
     y |-> JsRem(index \div nx, nx),
     z |-> index \div (nx * ny)]

\* Math.floor(a / b) is a \div b
getBlockCoords(index, nx, ny) ==
    [x |-> JsRem(index, nx),
     y |-> JsRem(index \div nx, ny),
     z |-> index \div (nx * ny)]

(***************************************************************************)
(* lib/blockModel: isBoundaryBlock.  The loop over the six neighbours      *)
(* returns true at the first in-bounds unmined one, false after the last.  *)
(***************************************************************************)
Neighbors(coords) ==
    << [x |-> coords.x - 1, y |-> coords.y, z |-> coords.z],
       [x |-> coords.x + 1, y |-> coords.y, z |-> coords.z],
       [x |-> coords.x, y |-> coords.y - 1, z |-> coords.z],
       [x |-> coords.x, y |-> coords.y + 1, z |-> coords.z],
       [x |-> coords.x, y |-> coords.y, z |-> coords.z - 1],
       [x |-> coords.x, y |-> coords.y, z |-> coords.z + 1] >>

OutOfBounds(c, nx, ny, nz) ==
    c.x < 0 \/ c.x >= nx \/ c.y < 0 \/ c.y >= ny \/ c.z < 0 \/ c.z >= nz

\* isBoundaryBlock without the out-of-bounds skip: a neighbour outside the
\* grid reads as unmined
isBoundaryBlock_noBoundsSkip(index, bm, mined) ==
    IF IsFalsy(mined, index) THEN FALSE
    ELSE LET coords == getBlockCoords(index, bm.nx, bm.ny)
         IN  \E k \in 1..6 :
                \/ OutOfBounds(Neighbors(coords)[k], bm.nx, bm.ny, bm.nz)
                \/ IsFalsy(mined, getBlockIndex(Neighbors(coords)[k].x, Neighbors(coords)[k].y,
                                                Neighbors(coords)[k].z, bm.nx, bm.ny))

\* isBoundaryBlock looking at the four neighbours of the layer only
isBoundaryBlock_noVertical(index, bm, mined) ==
    IF IsFalsy(mined, index) THEN FALSE
    ELSE LET coords == getBlockCoords(index, bm.nx, bm.ny)
         IN  \E k \in 1..4 :
                /\ ~OutOfBounds(Neighbors(coords)[k], bm.nx, bm.ny, bm.nz)
                /\ IsFalsy(mined, getBlockIndex(Neighbors(coords)[k].x, Neighbors(coords)[k].y,
                                                Neighbors(coords)[k].z, bm.nx, bm.ny))

isBoundaryBlock(index, bm, mined) ==
    IF IsFalsy(mined, index) THEN FALSE
    ELSE LET coords == getBlockCoords(index, bm.nx, bm.ny)
             neighbors == Neighbors(coords)
         IN  \E k \in 1..6 :
                /\ ~OutOfBounds(neighbors[k], bm.nx, bm.ny, bm.nz)
                /\ IsFalsy(mined, getBlockIndex(neighbors[k].x, neighbors[k].y,
                                                neighbors[k].z, bm.nx, bm.ny))

(***************************************************************************)
(* lib/blockModel: calculateStats.  One pass over the values; the pass is  *)
(* folded here by halving the range (every accumulator is associative),    *)
(* which gives the same result.  averageValue is the pair                  *)
(* <<totalValue, values.length>> (numerator, denominator).                 *)
(***************************************************************************)
StatsOfBlock(bm, mined, i) ==
    LET value == Elem(bm.values, i)
        isMined == mined.defined /\ IsOne(mined.bits, i)
    IN  [minValue |-> value, maxValue |-> value, totalValue |-> value,
         positiveCount |-> IF value > 0 THEN 1 ELSE 0,
         negativeCount |-> IF value < 0 THEN 1 ELSE 0,
         minedValue |-> IF isMined THEN value ELSE 0,
         minedCount |-> IF isMined THEN 1 ELSE 0]

RECURSIVE StatsOfRange(_, _, _, _)
StatsOfRange(bm, mined, lo, hi) ==
    IF lo = hi THEN StatsOfBlock(bm, mined, lo)
    ELSE LET mid == (lo + hi) \div 2
             a == StatsOfRange(bm, mined, lo, mid)
             b == StatsOfRange(bm, mined, mid + 1, hi)
         IN  [minValue |-> Min(a.minValue, b.minValue),
              maxValue |-> Max(a.maxValue, b.maxValue),
              totalValue |-> a.totalValue + b.totalValue,
              positiveCount |-> a.positiveCount + b.positiveCount,
              negativeCount |-> a.negativeCount + b.negativeCount,
              minedValue |-> a.minedValue + b.minedValue,
              minedCount |-> a.minedCount + b.minedCount]

calculateStats(bm, mined) ==
    IF Length(bm.values) = 0
    THEN [minValue |-> "Infinity", maxValue |-> "-Infinity",
          maxAbsValue |-> "Infinity", totalValue |-> 0, averageValue |-> "NaN",
          positiveCount |-> 0, negativeCount |-> 0,
          minedValue |-> 0, minedCount |-> 0]
    ELSE LET s == StatsOfRange(bm, mined, 0, Length(bm.values) - 1)
         IN  [minValue |-> s.minValue, maxValue |-> s.maxValue,
              maxAbsValue |-> Max(Abs(s.minValue), Abs(s.maxValue)),
              totalValue |-> s.totalValue,
              averageValue |-> <<s.totalValue, Length(bm.values)>>,
              positiveCount |-> s.positiveCount, negativeCount |-> s.negativeCount,
              minedValue |-> s.minedValue, minedCount |-> s.minedCount]

(***************************************************************************)
(* lib/blockModel: valueToColor.  A colour is <<r, g, b>>, each component  *)
(* the exact fraction <<numerator, denominator>> of the source's           *)
(* expression (0.33 = 33/100, 0.67 = 67/100, 0.34 = 34/100), or the        *)
(* non-number a division by zero produces, kept as a fraction with         *)
(* denominator 0.  With a = |value| and M = maxAbsValue: t = a/M.          *)
(***************************************************************************)
Zero == <<0, 1>>
One == <<1, 1>>
NotANumber == <<0, 0>>
PlusInfinity == <<1, 0>>
MinusInfinity == <<-1, 0>>

valueToColor(value, M) ==
    IF M = 0
    THEN \* normalized = value / 0: NaN for 0, -Infinity or Infinity otherwise.
         \* NaN fails every comparison and reaches the last branch, with
         \* s = NaN; -Infinity gives t = Infinity, s = Infinity in the
         \* second red branch; Infinity gives s = Infinity in the last branch
         IF value < 0 THEN <<One, PlusInfinity, Zero>>
         ELSE IF value = 0 THEN <<Zero, NotANumber, One>>
         ELSE <<Zero, MinusInfinity, One>>
    ELSE IF value < 0
    THEN LET a == Abs(value)
         IN  IF 2 * a < M
             THEN \* s = t * 2:  (0.5 + s * 0.5, 0, 0)
                  << <<M + 2 * a, 2 * M>>, Zero, Zero >>
             ELSE \* s = (t - 0.5) * 2:  (1, s * 0.4, 0)
                  << One, <<2 * (2 * a - M), 5 * M>>, Zero >>
    ELSE IF 100 * value < 33 * M
    THEN \* s = t / 0.33:  (1 - s * 0.5, 1, 0)
         << <<33 * M - 50 * value, 33 * M>>, One, Zero >>
    ELSE IF 100 * value < 67 * M
    THEN \* s = (t - 0.33) / 0.34:  (0.5 - s * 0.5, 1, s)
         << <<67 * M - 100 * value, 68 * M>>, One, <<100 * value - 33 * M, 34 * M>> >>
    ELSE \* s = (t - 0.67) / 0.33:  (0, 1 - s * 0.5, 1)
         << Zero, <<133 * M - 100 * value, 66 * M>>, One >>

\* color.setHex(0x22c55e), color.setHex(0x3f3f46): bytes over 255
MinedGreen == << <<34, 255>>, <<197, 255>>, <<94, 255>> >>
UnminedGray == << <<63, 255>>, <<63, 255>>, <<70, 255>> >>

(***************************************************************************)
(* components/Visualization3D: the render position of a block, doubled:    *)
(* (x - nx/2, z - nz/2, y - ny/2).                                         *)
(***************************************************************************)
RenderPosition2(bm, coords) ==
    << 2 * coords.x - bm.nx, 2 * coords.z - bm.nz, 2 * coords.y - bm.ny >>

(***************************************************************************)
(* components/Visualization3D: SurfaceMesh.  faces is the source's table;  *)
(* corners are doubled (-0.5 is -1, 0.5 is 1).                             *)
(***************************************************************************)
faces ==
    << [dx |-> -1, dy |-> 0, dz |-> 0, normal |-> <<-1, 0, 0>>, corners |->
          << <<-1, -1, -1>>, <<-1, 1, -1>>, <<-1, 1, 1>>, <<-1, -1, 1>> >>],
       [dx |-> 1, dy |-> 0, dz |-> 0, normal |-> <<1, 0, 0>>, corners |->
          << <<1, -1, -1>>, <<1, -1, 1>>, <<1, 1, 1>>, <<1, 1, -1>> >>],
       [dx |-> 0, dy |-> 0, dz |-> -1, normal |-> <<0, 0, -1>>, corners |->
          << <<-1, -1, -1>>, <<-1, 1, -1>>, <<1, 1, -1>>, <<1, -1, -1>> >>],
       [dx |-> 0, dy |-> 0, dz |-> 1, normal |-> <<0, 0, 1>>, corners |->
          << <<-1, -1, 1>>, <<1, -1, 1>>, <<1, 1, 1>>, <<-1, 1, 1>> >>],
       [dx |-> 0, dy |-> -1, dz |-> 0, normal |-> <<0, -1, 0>>, corners |->
          << <<-1, -1, -1>>, <<1, -1, -1>>, <<1, -1, 1>>, <<-1, -1, 1>> >>],
       [dx |-> 0, dy |-> 1, dz |-> 0, normal |-> <<0, 1, 0>>, corners |->
          << <<-1, 1, -1>>, <<-1, 1, 1>>, <<1, 1, 1>>, <<1, 1, -1>> >> ] >>

\* the neighbour across a face taken without the swap of y and z
FaceNeighbor_noSwap(coords, face) ==
    [x |-> coords.x + face.dx, y |-> coords.y + face.dy, z |-> coords.z + face.dz]

\* the neighbour across a face: y and z swapped "due to coordinate mapping"
FaceNeighbor(coords, face) ==
    [x |-> coords.x + face.dx, y |-> coords.y + face.dz, z |-> coords.z + face.dy]

\* isExposed with the faces at the model boundary drawn
isExposed_outerShell(i, f, bm, mined) ==
    LET n == FaceNeighbor(getBlockCoords(i, bm.nx, bm.ny), faces[f])
    IN  IF OutOfBounds(n, bm.nx, bm.ny, bm.nz) THEN TRUE
        ELSE IsFalsy(mined, getBlockIndex(n.x, n.y, n.z, bm.nx, bm.ny))

\* isExposed of face number f of block i
isExposed(i, f, bm, mined) ==
    LET n == FaceNeighbor(getBlockCoords(i, bm.nx, bm.ny), faces[f])
    IN  IF OutOfBounds(n, bm.nx, bm.ny, bm.nz) THEN FALSE
        ELSE IsFalsy(mined, getBlockIndex(n.x, n.y, n.z, bm.nx, bm.ny))

\* colour of block i in the mesh
MeshColor(i, bm, scheme, stats) ==
    IF scheme = "mined" THEN MinedGreen
    ELSE valueToColor(Elem(bm.values, i), stats.maxAbsValue)

\* The body of the useMemo.  The two nested loops (blocks ascending, the six
\* faces in table order) emit the quads of EmittedQuads in that order; quad
\* number j (from 0) pushes vertices 4j .. 4j+3 (baseIndex = 4j) and the index
\* triples (4j, 4j+1, 4j+2), (4j, 4j+2, 4j+3).
EmittedQuads(bm, mined) ==
    LET total == Length(bm.values)
        all == Array([k \in 1..(6 * total) |->
                        [i |-> (k - 1) \div 6, f |-> ((k - 1) % 6) + 1]], 6 * total)
    IN  SelectSeq(all, LAMBDA q : /\ isBoundaryBlock(q.i, bm, mined)
                                  /\ isExposed(q.i, q.f, bm, mined))

SurfaceMesh(bm, mined, scheme) ==
    LET stats == calculateStats(bm, MaskValue(mined))
        quads == EmittedQuads(bm, mined)
        QuadOf(m) == quads[((m - 1) \div 4) + 1]
        CornerOf(m) == faces[QuadOf(m).f].corners[((m - 1) % 4) + 1]
        CentreOf(m) == RenderPosition2(bm, getBlockCoords(QuadOf(m).i, bm.nx, bm.ny))
        n == Len(quads)
    IN  [vertices |-> Array([m \in 1..(4 * n) |->
                               << CentreOf(m)[1] + CornerOf(m)[1],
                                  CentreOf(m)[2] + CornerOf(m)[2],
                                  CentreOf(m)[3] + CornerOf(m)[3] >>], 4 * n),
         colors |-> Array([m \in 1..(4 * n) |->
                               MeshColor(QuadOf(m).i, bm, scheme, stats)], 4 * n),
         normals |-> Array([m \in 1..(4 * n) |-> faces[QuadOf(m).f].normal], 4 * n),
         indices |-> Array([m \in 1..(6 * n) |->
                               4 * ((m - 1) \div 6) + <<0, 1, 2, 0, 2, 3>>[((m - 1) % 6) + 1]],
                           6 * n)]

(***************************************************************************)
(* components/Visualization3D: BlockInstances, the body of its useMemo.    *)
(***************************************************************************)
MAX_BLOCKS_TO_RENDER == 100000

\* Math.ceil(a / b) for a >= 0, b > 0
Ceil(a, b) == (a + b - 1) \div b

\* the stride taken as Math.floor(total / MAX) + 1
skipFactor_floorPlusOne(totalBlocks, mode, layer) ==
    IF mode = "all" /\ layer = NoLayer /\ totalBlocks > MAX_BLOCKS_TO_RENDER
    THEN (totalBlocks \div MAX_BLOCKS_TO_RENDER) + 1
    ELSE 1

\* the stride taken as Math.floor(total / MAX)
skipFactor_floor(totalBlocks, mode, layer) ==
    IF mode = "all" /\ layer = NoLayer /\ totalBlocks > MAX_BLOCKS_TO_RENDER
    THEN totalBlocks \div MAX_BLOCKS_TO_RENDER
    ELSE 1

skipFactor(totalBlocks, mode, layer) ==
    LET isFilteredView == mode # "all"
        isCrossSection == layer # NoLayer
    IN  IF ~isFilteredView /\ ~isCrossSection /\ totalBlocks > MAX_BLOCKS_TO_RENDER
        THEN Ceil(totalBlocks, MAX_BLOCKS_TO_RENDER)
        ELSE 1

\* the layer filter does not "continue" at block i
InLayer(i, bm, layer, dim) ==
    LET coords == getBlockCoords(i, bm.nx, bm.ny)
        coordValue == IF dim = "x" THEN coords.x ELSE IF dim = "y" THEN coords.y ELSE coords.z
    IN  layer # NoLayer => coordValue = layer

\* the view mode filtering does not "continue" at block i
InView(i, bm, mined, mode, wireframe) ==
    mined.defined =>
        LET isMined == IsOne(mined.bits, i)
        IN  /\ ~(wireframe /\ ~isMined)
            /\ ~(mode = "mined" /\ ~isMined)
            /\ ~(mode = "unmined" /\ isMined)
            /\ ~(wireframe /\ isMined /\ ~isBoundaryBlock(i, bm, mined.bits))

InstanceColor(i, bm, mined, scheme, stats) ==
    IF scheme = "mined" /\ mined.defined
    THEN IF IsOne(mined.bits, i) THEN MinedGreen ELSE UnminedGray
    ELSE valueToColor(Elem(bm.values, i), stats.maxAbsValue)

\* the break without the cross-section exemption
Emitted_alwaysCapped(passing, isCrossSection) ==
    SubSeq(passing, 1, Min(Len(passing), MAX_BLOCKS_TO_RENDER))

\* the loop without the break
Emitted_neverCapped(passing, isCrossSection) == passing

\* if (!isCrossSection && blocksRendered >= MAX_BLOCKS_TO_RENDER) break;
\* of the candidates that pass the filters, in order, the loop emits all when
\* a cross-section is shown, else the first MAX_BLOCKS_TO_RENDER
Emitted(passing, isCrossSection) ==
    IF isCrossSection THEN passing
    ELSE SubSeq(passing, 1, Min(Len(passing), MAX_BLOCKS_TO_RENDER))

\* The loop visits i = 0, skipFactor, 2 * skipFactor, ... below
\* values.length (visited); the blocks that reach the pushes are those the two
\* filters let through (passing); the break at the top of the loop body stops
\* the loop, unless a cross-section is shown, once MAX_BLOCKS_TO_RENDER blocks
\* are rendered, so the first MAX_BLOCKS_TO_RENDER passing blocks are emitted.
BlockInstances(bm, mined, mode, layer, dim, scheme, wireframe) ==
    LET stats == calculateStats(bm, mined)
        totalBlocks == Length(bm.values)
        isCrossSection == layer # NoLayer
        skip == skipFactor(totalBlocks, mode, layer)
        visited == Array([k \in 1..Ceil(totalBlocks, skip) |-> (k - 1) * skip],
                         Ceil(totalBlocks, skip))
        passing == SelectSeq(visited, LAMBDA i : /\ InLayer(i, bm, layer, dim)
                                                  /\ InView(i, bm, mined, mode, wireframe))
        indexMapping == Emitted(passing, isCrossSection)
        blocksRendered == Len(indexMapping)
    IN  [positions |-> Array([k \in 1..blocksRendered |->
                          RenderPosition2(bm, getBlockCoords(indexMapping[k], bm.nx, bm.ny))],
                          blocksRendered),
         colors |-> Array([k \in 1..blocksRendered |->
                          InstanceColor(indexMapping[k], bm, mined, scheme, stats)],
                          blocksRendered),
         count |-> blocksRendered,
         isLimited |-> skip > 1 /\ ~isCrossSection,
         instanceToBlockIndex |-> indexMapping]

(***************************************************************************)
(* Inputs: block models as parseDatFile returns them (values.length =      *)
(* nx * ny * nz).                                                          *)
(***************************************************************************)
Dims == 1..MaxDim

\* block values: a repeating pattern of gains, losses and zeros
ValuePattern == <<10, -5, 3, -1, 0>>

ValuesOf(total) == TypedArray(total, ValuePattern)

ModelOf(nx, ny, nz) ==
    [nx |-> nx, ny |-> ny, nz |-> nz, values |-> ValuesOf(nx * ny * nz)]

InteriorModel == ModelOf(3, 3, 3)

Models ==
    { ModelOf(d[1], d[2], d[3]) :
        d \in { e \in Dims \X Dims \X Dims : e[1] * e[2] * e[3] <= MaxBlocks } }
    \cup { InteriorModel }

\* The masks a solve can return for a grid of total blocks: a Uint8Array of
\* 0/1, one entry per block.  Every mask for a grid of at most MaxBlocks
\* blocks; for the 3x3x3 grid the masks with one block mined, or one unmined,
\* or none.
MaskOf(total, S, bit) ==
    Full(Array([k \in 1..total |-> IF (k - 1) \in S THEN bit ELSE 1 - bit], total))

Masks(total) ==
    IF total <= MaxBlocks
    THEN { MaskValue(MaskOf(total, S, 1)) : S \in SUBSET (0..(total - 1)) }
    ELSE { MaskValue(MaskOf(total, {}, b)) : b \in {0, 1} }
         \cup { MaskValue(MaskOf(total, {i}, b)) : i \in 0..(total - 1), b \in {0, 1} }

NoCall == [fn |-> "none"]

\* null of JavaScript
Null == [isNull |-> TRUE]

\* a number held where null can be held too
Number(n) == [isNull |-> FALSE, value |-> n]

\* a file path held where null can be held too
Path(name) == [isNull |-> FALSE, path |-> name]

Ones(bits) == Cardinality({ k \in 1..Len(bits) : bits[k] = 1 })

\* the number of elements 1 of a mask
PopCount(a) ==
    IF a.length = 0 THEN 0
    ELSE (a.length \div Len(a.unit)) * Ones(a.unit)
         + Ones(SubSeq(a.unit, 1, a.length % Len(a.unit)))

\* runMineflow is not running
NoRun == [pc |-> "idle"]

\* seq without its element number k
Remove(seq, k) == SubSeq(seq, 1, k - 1) \o SubSeq(seq, k + 1, Len(seq))

\* The App state around components that show blockModel and minedBlocks:
\* a file was loaded, it was solved when there is a mask, nothing is in
\* flight.
AppSettled ==
    /\ isLoading = FALSE
    /\ error = Null
    /\ dataFilePath = Path("model.dat")
    /\ solveCount = (IF minedBlocks.defined THEN 1 ELSE 0)
    /\ numBlocksMined = (IF minedBlocks.defined THEN Number(PopCount(minedBlocks.bits))
                                                ELSE Null)
    /\ pending = <<>>
    /\ hoveredBlock = Null
    /\ run = NoRun
    /\ tempDir = Null

DefaultView ==
    /\ viewMode = "all"
    /\ currentLayer = NoLayer
    /\ sliceDimension = "z"
    /\ colorScheme = "value"
    /\ showWireframe = FALSE

(***************************************************************************)
(* SpecGrid: the two index conversions applied to in-range arguments.      *)
(***************************************************************************)
InitGrid ==
    /\ blockModel \in Models
    /\ minedBlocks = NoMask
    /\ DefaultView
    /\ call = NoCall
    /\ AppSettled

CallGetBlockIndex ==
    \E x \in 0..(blockModel.nx - 1), y \in 0..(blockModel.ny - 1),
       z \in 0..(blockModel.nz - 1) :
        /\ call' = [fn |-> "getBlockIndex", args |-> [x |-> x, y |-> y, z |-> z],
                    ret |-> getBlockIndex(x, y, z, blockModel.nx, blockModel.ny)]
        /\ UNCHANGED <<blockModel, minedBlocks, view, app, hoveredBlock, solver>>

CallGetBlockCoords ==
    \E i \in 0..(Length(blockModel.values) - 1) :
        /\ call' = [fn |-> "getBlockCoords", args |-> i,
                    ret |-> getBlockCoords(i, blockModel.nx, blockModel.ny)]
        /\ UNCHANGED <<blockModel, minedBlocks, view, app, hoveredBlock, solver>>

NextGrid == CallGetBlockIndex \/ CallGetBlockCoords

SpecGrid == InitGrid /\ [][NextGrid]_vars

(***************************************************************************)
(* SpecBoundary: isBoundaryBlock applied to a block of a solved model.     *)
(***************************************************************************)
InitBoundary ==
    /\ blockModel \in Models
    /\ minedBlocks \in Masks(Length(blockModel.values))
    /\ DefaultView
    /\ call = NoCall
    /\ AppSettled

CallIsBoundaryBlock ==
    \E i \in 0..(Length(blockModel.values) - 1) :
        /\ call' = [fn |-> "isBoundaryBlock", args |-> i,
                    ret |-> isBoundaryBlock(i, blockModel, minedBlocks.bits)]
        /\ UNCHANGED <<blockModel, minedBlocks, view, app, hoveredBlock, solver>>

NextBoundary == CallIsBoundaryBlock

SpecBoundary == InitBoundary /\ [][NextBoundary]_vars

(***************************************************************************)
(* SpecMesh: the surface mesh of a solved model, as Visualization3D shows  *)
(* it when "Pit Surface Only" is on.                                       *)
(***************************************************************************)
InitMesh ==
    /\ blockModel \in Models
    /\ minedBlocks \in Masks(Length(blockModel.values))
    /\ viewMode = "all"
    /\ currentLayer = NoLayer
    /\ sliceDimension = "z"
    /\ colorScheme \in {"value", "mined"}
    /\ showWireframe = TRUE
    /\ call = NoCall
    /\ AppSettled

CallSurfaceMesh ==
    /\ showWireframe /\ minedBlocks.defined
    /\ call' = [fn |-> "SurfaceMesh",
                ret |-> SurfaceMesh(blockModel, minedBlocks.bits, colorScheme)]
    /\ UNCHANGED <<blockModel, minedBlocks, view, app, hoveredBlock, solver>>

NextMesh == CallSurfaceMesh

SpecMesh == InitMesh /\ [][NextMesh]_vars

(***************************************************************************)
(* SpecRender: the render set of BlockInstances for a model, an optional   *)
(* mask and a view state.  The small grids take every mask and every view  *)
(* state; the 500x500x1 grid (250000 blocks, above MAX_BLOCKS_TO_RENDER)   *)
(* takes the mask of LargeMask and the view states of LargeViews.  The     *)
(* useMemo computes the render set once per input.                         *)
(***************************************************************************)
RenderModels ==
    { ModelOf(d[1], d[2], d[3]) :
        d \in { e \in Dims \X Dims \X Dims : e[1] * e[2] * e[3] <= MaxRenderBlocks } }

LargeModel == ModelOf(500, 500, 1)

\* the blocks of the even rows (y even) mined: 125000 mined, 125000 unmined
LargeMask ==
    MaskValue(TypedArray(250000, Array([k \in 1..1000 |-> IF k <= 500 THEN 1 ELSE 0], 1000)))

\* <<viewMode, currentLayer, showWireframe>>
LargeViews ==
    { <<"all", NoLayer, FALSE>>, <<"mined", NoLayer, FALSE>>,
      <<"all", NoLayer, TRUE>>, <<"all", 0, FALSE>> }

\* the slider of Controls: no layer, or a layer of the slice dimension
Layers(bm, dim) ==
    LET n == IF dim = "x" THEN bm.nx ELSE IF dim = "y" THEN bm.ny ELSE bm.nz
    IN  {NoLayer} \cup (0..(n - 1))

InitRender ==
    /\ \/ /\ blockModel \in RenderModels
          /\ minedBlocks \in {NoMask} \cup Masks(Length(blockModel.values))
          /\ sliceDimension \in {"x", "y", "z"}
          /\ colorScheme \in {"value", "mined"}
          /\ viewMode \in {"all", "mined", "unmined"}
          /\ currentLayer \in Layers(blockModel, sliceDimension)
          /\ showWireframe \in BOOLEAN
       \/ /\ blockModel = LargeModel
          /\ minedBlocks = LargeMask
          /\ sliceDimension = "z"
          /\ colorScheme = "mined"
          /\ \E v \in LargeViews :
                /\ viewMode = v[1]
                /\ currentLayer = v[2]
                /\ showWireframe = v[3]
    /\ call = NoCall
    /\ AppSettled

\* the value of the useMemo for the props of the current state
RenderSet ==
    BlockInstances(blockModel, minedBlocks, viewMode, currentLayer, sliceDimension,
                   colorScheme, showWireframe)

\* BlockInstances renders: count instances, and the notice if isLimited
CallBlockInstances ==
    /\ call.fn = "none"
    /\ LET r == RenderSet
       IN  call' = [fn |-> "BlockInstances",
                    skipFactor |-> skipFactor(Length(blockModel.values), viewMode,
                                              currentLayer),
                    count |-> r.count,
                    isLimited |-> r.isLimited]
    /\ UNCHANGED <<blockModel, minedBlocks, view, app, hoveredBlock, solver>>

NextRender == CallBlockInstances

SpecRender == InitRender /\ [][NextRender]_vars

(***************************************************************************)
(* SpecStride: the stride of BlockInstances for block counts around the    *)
(* multiples of MAX_BLOCKS_TO_RENDER.                                      *)
(***************************************************************************)
\* the multiples 1 .. MaxStrideMultiple of MAX_BLOCKS_TO_RENDER are probed
MaxStrideMultiple == 3

StrideTotals ==
    (1..MaxBlocks) \cup {250000}
    \cup { k * MAX_BLOCKS_TO_RENDER + e : k \in 1..MaxStrideMultiple, e \in {-1, 0, 1} }

InitStride ==
    /\ blockModel \in { ModelOf(t, 1, 1) : t \in StrideTotals }
    /\ minedBlocks = NoMask
    /\ viewMode \in {"all", "mined", "unmined"}
    /\ currentLayer \in {NoLayer, 0}
    /\ sliceDimension = "z"
    /\ colorScheme = "value"
    /\ showWireframe = FALSE
    /\ call = NoCall
    /\ AppSettled

CallSkipFactor ==
    /\ call.fn = "none"
    /\ call' = [fn |-> "skipFactor",
                ret |-> skipFactor(Length(blockModel.values), viewMode, currentLayer)]
    /\ UNCHANGED <<blockModel, minedBlocks, view, app, hoveredBlock, solver>>

NextStride == CallSkipFactor

SpecStride == InitStride /\ [][NextStride]_vars

(***************************************************************************)
(* The grid of the current state, described without the code's operators.  *)
(***************************************************************************)
Total == blockModel.nx * blockModel.ny * blockModel.nz
Blocks == 0..(Total - 1)
Cells == (0..(blockModel.nx - 1)) \X (0..(blockModel.ny - 1)) \X (0..(blockModel.nz - 1))
IndexOfCell(c) == c[1] + blockModel.nx * c[2] + blockModel.nx * blockModel.ny * c[3]
CellOfBlock(b) == CHOOSE c \in Cells : IndexOfCell(c) = b
Mined(b) == minedBlocks.defined /\ Elem(minedBlocks.bits, b) = 1
Offsets6 == { <<1, 0, 0>>, <<-1, 0, 0>>, <<0, 1, 0>>, <<0, -1, 0>>, <<0, 0, 1>>, <<0, 0, -1>> }
Plus(a, b) == <<a[1] + b[1], a[2] + b[2], a[3] + b[3]>>
Minus(a, b) == <<a[1] - b[1], a[2] - b[2], a[3] - b[3]>>
Dot(a, b) == a[1] * b[1] + a[2] * b[2] + a[3] * b[3]
Cross(a, b) ==
    << a[2] * b[3] - a[3] * b[2], a[3] * b[1] - a[1] * b[3], a[1] * b[2] - a[2] * b[1] >>
\* b is mined and the cell at model offset d from it is in the grid and unmined
ExposedToward(b, d) ==
    /\ Mined(b)
    /\ Plus(CellOfBlock(b), d) \in Cells
    /\ ~Mined(IndexOfCell(Plus(CellOfBlock(b), d)))
\* the exposed internal faces: a mined cell and an offset to an unmined cell
ExposedFaces ==
    { f \in Cells \X Offsets6 :
        /\ Mined(IndexOfCell(f[1]))
        /\ Plus(f[1], f[2]) \in Cells
        /\ ~Mined(IndexOfCell(Plus(f[1], f[2]))) }

\* C8: getBlockIndex and getBlockCoords are inverses on the grid: the index
\* of an in-range (x,y,z) is a block index whose coordinates are (x,y,z), and
\* the coordinates of a block index i are in range and have index i.
C8_IndexCoordsInverse ==
    /\ call.fn = "getBlockIndex" =>
          /\ call.ret \in Blocks
          /\ getBlockCoords(call.ret, blockModel.nx, blockModel.ny) = call.args
    /\ call.fn = "getBlockCoords" =>
          /\ <<call.ret.x, call.ret.y, call.ret.z>> \in Cells
          /\ getBlockIndex(call.ret.x, call.ret.y, call.ret.z,
                           blockModel.nx, blockModel.ny) = call.args

C8_Witness ==
    /\ blockModel.nx = 2 /\ blockModel.ny = 3 /\ blockModel.nz = 1
    /\ call.fn = "getBlockIndex"
    /\ call.args = [x |-> 1, y |-> 2, z |-> 0]
    /\ call.ret = 5

ScenarioB ==
    /\ blockModel.nx = 2 /\ blockModel.ny = 2 /\ blockModel.nz = 1
    /\ [i \in 0..3 |-> Elem(blockModel.values, i)] = [i \in 0..3 |-> <<10, -5, 3, -1>>[i + 1]]
    /\ minedBlocks.defined /\ minedBlocks.bits = Full(<<1, 1, 0, 1>>)

\* C1 as stated: in scenario B (grid 2x2x1, mask [1,1,0,1]) isBoundaryBlock(1)
\* is true.
C1_ScenarioB_Original ==
    (ScenarioB /\ call.fn = "isBoundaryBlock" /\ call.args = 1) => call.ret = TRUE

\* C1 amended: in scenario B isBoundaryBlock(1) is false (block 1 = (1,0,0)
\* has the in-bounds neighbours 0 and 3, both mined; block 2 = (0,1,0) is
\* diagonal to it); the unmined block 2 makes blocks 0 and 3 boundary blocks.
C1_ScenarioB ==
    (ScenarioB /\ call.fn = "isBoundaryBlock") =>
        /\ call.args = 1 => call.ret = FALSE
        /\ call.args \in {0, 3} => call.ret = TRUE

C1_Witness == ScenarioB /\ call.fn = "isBoundaryBlock" /\ call.args = 1

\* C2: isBoundaryBlock(i) is true iff block i is mined and one of its six
\* axis neighbours lies inside the grid and is unmined; so it is false for an
\* unmined block, false for a mined block whose in-bounds neighbours are all
\* mined, and a neighbour outside the grid never counts.
C2_BoundaryIffMinedWithUnminedNeighbour ==
    call.fn = "isBoundaryBlock" =>
        (call.ret <=> \E d \in Offsets6 : ExposedToward(call.args, d))

\* a mined block at the edge of the grid, next to mined blocks only, while
\* other blocks are unmined: the answer is false
C2_Witness ==
    /\ call.fn = "isBoundaryBlock"
    /\ call.ret = FALSE
    /\ Mined(call.args)
    /\ \E d \in Offsets6 : Plus(CellOfBlock(call.args), d) \notin Cells
    /\ \E d \in Offsets6 : Plus(CellOfBlock(call.args), d) \in Cells
    /\ \E b \in Blocks : ~Mined(b)

(***************************************************************************)
(* Reading the mesh of call.ret: quad j (from 1) is vertices 4j-3 .. 4j.   *)
(***************************************************************************)
QuadCount == Len(call.ret.vertices) \div 4
QuadVertices(j) == { call.ret.vertices[4 * (j - 1) + c] : c \in 1..4 }
QuadNormals(j) == { call.ret.normals[4 * (j - 1) + c] : c \in 1..4 }
\* model offset (dx,dy,dz) seen in render space: (dx,dz,dy)
RenderDir(d) == <<d[1], d[3], d[2]>>
\* doubled render position (x - nx/2, z - nz/2, y - ny/2) of cell c
Centre2(c) ==
    <<2 * c[1] - blockModel.nx, 2 * c[3] - blockModel.nz, 2 * c[2] - blockModel.ny>>
\* the four corners of the unit cube around cell c on its side toward d
FaceCorners2(c, d) ==
    { p \in { Plus(Centre2(c), u) : u \in {-1, 1} \X {-1, 1} \X {-1, 1} } :
        Dot(Minus(p, Centre2(c)), RenderDir(d)) = 1 }
\* quad j is the face of cell f[1] toward model offset f[2]
QuadIsFace(j, f) ==
    /\ QuadNormals(j) = { RenderDir(f[2]) }
    /\ QuadVertices(j) = FaceCorners2(f[1], f[2])
\* the only face quad j can be: its offset from its first normal, its cell
\* from the mean of its vertices
QuadFace(j) ==
    LET n == call.ret.normals[4 * (j - 1) + 1]
        v == [c \in 1..4 |-> call.ret.vertices[4 * (j - 1) + c]]
        centre == [k \in 1..3 |-> (v[1][k] + v[2][k] + v[3][k] + v[4][k] - 4 * n[k]) \div 4]
    IN  << << (centre[1] + blockModel.nx) \div 2, (centre[3] + blockModel.ny) \div 2,
              (centre[2] + blockModel.nz) \div 2 >>,
           <<n[1], n[3], n[2]>> >>
QuadFaces == { QuadFace(j) : j \in 1..QuadCount }
\* the triangles of the index list, as triples of vertex numbers (from 0)
TriangleCount == Len(call.ret.indices) \div 3
Triangle(t) ==
    << call.ret.indices[3 * (t - 1) + 1], call.ret.indices[3 * (t - 1) + 2],
       call.ret.indices[3 * (t - 1) + 3] >>
TriangleCross(t) ==
    LET v0 == call.ret.vertices[Triangle(t)[1] + 1]
        v1 == call.ret.vertices[Triangle(t)[2] + 1]
        v2 == call.ret.vertices[Triangle(t)[3] + 1]
    IN  Cross(Minus(v1, v0), Minus(v2, v0))

\* C5: every quad is the two triangles (b,b+1,b+2) and (b,b+2,b+3), and the
\* right-hand-rule cross product of each triangle's edges points in the
\* direction of the normal stored for its vertices.
C5_WindingFollowsNormal ==
    call.fn = "SurfaceMesh" =>
        /\ TriangleCount = 2 * QuadCount
        /\ \A j \in 1..QuadCount :
              /\ Triangle(2 * j - 1) = <<4 * (j - 1), 4 * (j - 1) + 1, 4 * (j - 1) + 2>>
              /\ Triangle(2 * j) = <<4 * (j - 1), 4 * (j - 1) + 2, 4 * (j - 1) + 3>>
        /\ \A t \in 1..TriangleCount :
              LET n == call.ret.normals[Triangle(t)[1] + 1]
              IN  /\ Dot(TriangleCross(t), n) > 0
                  /\ Cross(TriangleCross(t), n) = <<0, 0, 0>>

\* C6: the mesh holds exactly one quad per exposed face (a mined block and a
\* model offset whose cell is in the grid and unmined) and no other quad; the
\* quad's normal is that offset under the axis remap and its four vertices
\* are the corners of the block's cube on that side.
C6_QuadsAreExposedFaces ==
    call.fn = "SurfaceMesh" =>
        /\ Len(call.ret.vertices) = 4 * Cardinality(ExposedFaces)
        /\ Len(call.ret.normals) = Len(call.ret.vertices)
        /\ \A j \in 1..QuadCount : QuadIsFace(j, QuadFace(j))
        /\ QuadFaces = ExposedFaces

\* the 3x3x3 grid with block 22 = (1,1,2) unmined and the other blocks
\* mined: five quads, one of them on the side of block 13 = (1,1,1) toward it
C6_Witness ==
    /\ call.fn = "SurfaceMesh"
    /\ blockModel.nx = 3 /\ blockModel.ny = 3 /\ blockModel.nz = 3
    /\ \A b \in Blocks : Mined(b) <=> b # 22
    /\ QuadCount = 5
    /\ \E j \in 1..QuadCount : QuadIsFace(j, << <<1, 1, 1>>, <<0, 0, 1>> >>)

\* the quads drawn for cell c
QuadsOfCell(c) == { f \in QuadFaces : f[1] = c }

\* C7 as stated: the triangle count equals the count of exposed internal
\* faces, and each block contributes between 0 and 6 quads.
C7_TrianglesEqualFaces_Original ==
    call.fn = "SurfaceMesh" =>
        /\ TriangleCount = Cardinality(ExposedFaces)
        /\ \A c \in Cells : Cardinality(QuadsOfCell(c)) \in 0..6

\* C7 amended: the quad count equals the count of exposed internal faces and
\* the triangle count is twice that (two triangles per quad); each block
\* contributes between 0 and 6 quads.
C7_TrianglesTwiceFaces ==
    call.fn = "SurfaceMesh" =>
        /\ QuadCount = Cardinality(ExposedFaces)
        /\ Cardinality(QuadFaces) = QuadCount
        /\ 3 * TriangleCount = Len(call.ret.indices)
        /\ TriangleCount = 2 * Cardinality(ExposedFaces)
        /\ \A c \in Cells : Cardinality(QuadsOfCell(c)) \in 0..6

\* the lone mined block in the middle of the 3x3x3 grid: 6 quads, 12 triangles
C7_Witness ==
    /\ call.fn = "SurfaceMesh"
    /\ blockModel.nx = 3 /\ blockModel.ny = 3 /\ blockModel.nz = 3
    /\ \A b \in Blocks : Mined(b) <=> b = 13
    /\ Cardinality(QuadsOfCell(<<1, 1, 1>>)) = 6
    /\ QuadCount = 6 /\ TriangleCount = 12

(***************************************************************************)
(* Reading the render set.                                                 *)
(***************************************************************************)
AllBlocks ==
    Array([k \in 1..Length(blockModel.values) |-> k - 1], Length(blockModel.values))
\* the blocks that pass the layer slice, the view filter and the
\* boundary-only toggle of the current view state, in ascending order
PassingBlocks ==
    SelectSeq(AllBlocks,
              LAMBDA i : /\ InLayer(i, blockModel, currentLayer, sliceDimension)
                         /\ InView(i, blockModel, minedBlocks, viewMode, showWireframe))

\* C3 as stated: with a view filter, a layer slice or the boundary-only
\* toggle active, the render set holds every block that passes the filters.
C3_FilteredIsExact_Original ==
    (call.fn = "BlockInstances"
       /\ (viewMode # "all" \/ currentLayer # NoLayer \/ showWireframe)) =>
        RenderSet.instanceToBlockIndex = PassingBlocks

\* C3 amended: with a layer slice active the render set holds every block
\* that passes the filters, for any model size; with a view filter and no
\* slice no stride is applied but the render set is cut at the cap: it holds
\* the first MAX_BLOCKS_TO_RENDER passing blocks; the boundary-only toggle
\* alone changes neither the stride nor the cap: the render set holds the
\* passing blocks at the multiples of the stride.
C3_SliceExactFilterCapped ==
    call.fn = "BlockInstances" =>
        LET passing == PassingBlocks
            m == RenderSet.instanceToBlockIndex
        IN  /\ Len(m) = call.count
            /\ currentLayer # NoLayer => m = passing
            /\ (currentLayer = NoLayer /\ viewMode # "all") =>
                  /\ call.skipFactor = 1
                  /\ m = SubSeq(passing, 1, Min(Len(passing), MAX_BLOCKS_TO_RENDER))
            /\ (currentLayer = NoLayer /\ viewMode = "all") =>
                  LET strided == SelectSeq(passing, LAMBDA i : i % call.skipFactor = 0)
                  IN  m = SubSeq(strided, 1, Min(Len(strided), MAX_BLOCKS_TO_RENDER))

\* layer z = 0 of the 250000-block grid: 250000 instances
C3_Witness ==
    /\ call.fn = "BlockInstances"
    /\ Length(blockModel.values) = 250000
    /\ currentLayer = 0 /\ viewMode = "all" /\ minedBlocks.defined
    /\ call.count = 250000

\* C4 as stated: the render set holds at most MAX_BLOCKS_TO_RENDER instances.
C4_AtMostMax_Original ==
    call.fn = "BlockInstances" =>
        /\ call.count <= MAX_BLOCKS_TO_RENDER
        /\ Len(RenderSet.instanceToBlockIndex) <= MAX_BLOCKS_TO_RENDER

\* C4 amended: when no layer slice is active, the render set holds at most
\* MAX_BLOCKS_TO_RENDER instances (with a slice the cap is not enforced).
C4_AtMostMaxWithoutSlice ==
    (call.fn = "BlockInstances" /\ currentLayer = NoLayer) =>
        LET r == RenderSet
        IN  /\ call.count <= MAX_BLOCKS_TO_RENDER
            /\ Len(r.instanceToBlockIndex) = call.count
            /\ Len(r.positions) = call.count
            /\ Len(r.colors) = call.count

\* mined-only on the 250000-block grid: 125000 blocks pass, the cap is hit
C4_Witness ==
    /\ call.fn = "BlockInstances"
    /\ Length(blockModel.values) = 250000
    /\ currentLayer = NoLayer /\ viewMode = "mined" /\ minedBlocks.defined
    /\ call.count = MAX_BLOCKS_TO_RENDER

\* C9: with no layer slice and view filter 'all', the stride is 1 iff the
\* block count is at most MAX_BLOCKS_TO_RENDER; otherwise it is
\* ceil(total / MAX), the least s with s * MAX >= total.
C9_Stride ==
    (call.fn = "skipFactor" /\ viewMode = "all" /\ currentLayer = NoLayer) =>
        LET total == Length(blockModel.values)
        IN  /\ call.ret = 1 <=> total <= MAX_BLOCKS_TO_RENDER
            /\ total > MAX_BLOCKS_TO_RENDER =>
                  /\ call.ret * MAX_BLOCKS_TO_RENDER >= total
                  /\ (call.ret - 1) * MAX_BLOCKS_TO_RENDER < total

C9_Witness ==
    /\ call.fn = "skipFactor" /\ viewMode = "all" /\ currentLayer = NoLayer
    /\ Length(blockModel.values) = 2 * MAX_BLOCKS_TO_RENDER
    /\ call.ret = 2

\* C10: with no slice, view filter 'all' and boundary-only off, the render
\* set is the blocks 0, stride, 2 * stride, ... below total, in that order:
\* ceil(total / stride) instances, not cut by the cap; for 250000 blocks the
\* stride is 3 and there are 83334 instances.
C10_EveryStrideth ==
    (call.fn = "BlockInstances" /\ viewMode = "all" /\ currentLayer = NoLayer
       /\ ~showWireframe) =>
        LET total == Length(blockModel.values)
            s == call.skipFactor
            m == RenderSet.instanceToBlockIndex
        IN  /\ Len(m) = call.count
            /\ call.count * s >= total
            /\ (call.count - 1) * s < total
            /\ \A k \in 1..Len(m) : m[k] = (k - 1) * s
            /\ total = 250000 => (s = 3 /\ call.count = 83334)

C10_Witness ==
    /\ call.fn = "BlockInstances" /\ viewMode = "all" /\ currentLayer = NoLayer
    /\ ~showWireframe /\ minedBlocks.defined
    /\ Length(blockModel.values) = 250000
    /\ call.count = 83334
    /\ RenderSet.instanceToBlockIndex[83334] = 249999

(***************************************************************************)
(* Text.  A JavaScript string is the sequence of its characters, each a    *)
(* one-character string.  A number that may be NaN is NaN or Num(n).  A    *)
(* call that may throw gives Throw(e) or Return(v).                        *)
(***************************************************************************)
LF == "\n"
Whitespace == {" ", LF}
Digits == <<"0", "1", "2", "3", "4", "5", "6", "7", "8", "9">>
IsDigit(c) == \E d \in 1..10 : Digits[d] = c
DigitValue(c) == (CHOOSE d \in 1..10 : Digits[d] = c) - 1

NaN == [isNaN |-> TRUE]
Num(n) == [isNaN |-> FALSE, value |-> n]

Throw(e) == [threw |-> TRUE, error |-> e]
Return(v) == [threw |-> FALSE, value |-> v]

\* Number.prototype.toString() of an integer
RECURSIVE NatToString(_)
NatToString(n) ==
    IF n < 10 THEN <<Digits[n + 1]>>
    ELSE NatToString(n \div 10) \o <<Digits[(n % 10) + 1]>>

NumberToString(n) == IF n < 0 THEN <<"-">> \o NatToString(-n) ELSE NatToString(n)

\* Array.prototype.join(sep) of an array of strings
RECURSIVE Join(_, _)
Join(strings, sep) ==
    IF Len(strings) = 0 THEN <<>>
    ELSE IF Len(strings) = 1 THEN strings[1]
    ELSE strings[1] \o <<sep>> \o Join(Tail(strings), sep)

\* String.prototype.split(sep) for a one-character separator: never empty,
\* "".split(sep) is [""]
RECURSIVE Split(_, _)
Split(text, sep) ==
    IF \A k \in 1..Len(text) : text[k] # sep THEN <<text>>
    ELSE LET k == CHOOSE j \in 1..Len(text) :
                     text[j] = sep /\ \A h \in 1..(j - 1) : text[h] # sep
         IN  <<SubSeq(text, 1, k - 1)>> \o Split(SubSeq(text, k + 1, Len(text)), sep)

\* String.prototype.trim()
RECURSIVE TrimStart(_)
TrimStart(text) ==
    IF Len(text) > 0 /\ text[1] \in Whitespace THEN TrimStart(Tail(text)) ELSE text

RECURSIVE TrimEnd(_)
TrimEnd(text) ==
    IF Len(text) > 0 /\ text[Len(text)] \in Whitespace
    THEN TrimEnd(SubSeq(text, 1, Len(text) - 1))
    ELSE text

Trim(text) == TrimEnd(TrimStart(text))

\* the value of the longest prefix of digits of text, read left to right
RECURSIVE DigitsValue(_, _)
DigitsValue(text, acc) ==
    IF Len(text) > 0 /\ IsDigit(text[1])
    THEN DigitsValue(Tail(text), 10 * acc + DigitValue(text[1]))
    ELSE acc

\* A number that is an integer is the pair of its sign and its magnitude,
\* and the magnitude is kept in two limbs, hi * Limb + lo with lo < Limb, so
\* that it stays exact beyond 31 bits.
Limb == 65536
HalfLimb == 32768
Wide(negative, hi, lo) == [negative |-> negative, hi |-> hi, lo |-> lo]
\* the magnitude of the longest prefix of digits of text, read left to right
RECURSIVE DigitsWide(_, _)
DigitsWide(text, acc) ==
    IF Len(text) > 0 /\ IsDigit(text[1])
    THEN LET low == 10 * acc.lo + DigitValue(text[1])
         IN  DigitsWide(Tail(text), [hi |-> 10 * acc.hi + low \div Limb, lo |-> low % Limb])
    ELSE acc
\* the number a sign and a magnitude stand for: the integer itself while its
\* magnitude is below 2^31, and the sign and the limbs beyond that
NumberOf(w) ==
    IF w.hi < HalfLimb
    THEN (IF w.negative THEN -(w.hi * Limb + w.lo) ELSE w.hi * Limb + w.lo)
    ELSE w
\* ToInt32, the conversion of a store into an Int32Array element: the number
\* modulo 2^32, read as a signed integer of 32 bits
ToInt32(w) ==
    LET h == w.hi % Limb
    IN  IF ~w.negative
        THEN (IF h < HalfLimb THEN h * Limb + w.lo ELSE (h - Limb) * Limb + w.lo)
        ELSE IF h < HalfLimb \/ (h = HalfLimb /\ w.lo = 0)
        THEN (-h) * Limb - w.lo
        ELSE (Limb - h - 1) * Limb + (Limb - w.lo)

\* parseInt(text, 10) as a sign and a magnitude: leading whitespace is
\* skipped, then an optional sign, then the longest run of digits; whatever
\* follows is ignored; NaN when there is no digit
parseIntWide(text) ==
    LET t == TrimStart(text)
        negative == Len(t) > 0 /\ t[1] = "-"
        body == IF Len(t) > 0 /\ t[1] \in {"-", "+"} THEN Tail(t) ELSE t
        magnitude == DigitsWide(body, [hi |-> 0, lo |-> 0])
    IN  IF Len(body) = 0 \/ ~IsDigit(body[1]) THEN NaN
        ELSE [isNaN |-> FALSE, wide |-> Wide(negative, magnitude.hi, magnitude.lo)]

\* parseInt(text, 10)
parseInt(text) ==
    LET parsed == parseIntWide(text)
    IN  IF parsed.isNaN THEN NaN ELSE Num(NumberOf(parsed.wide))

(***************************************************************************)
(* lib/fileParser: parseDatFile.  An Error is kept as the parts its        *)
(* message is built from.  values is an Int32Array: a value stored into it *)
(* is converted with ToInt32.                                              *)
(***************************************************************************)
parseDatFile(content, nx, ny, nz) ==
    LET lines == Split(Trim(content), LF)
        expectedBlocks == nx * ny * nz
        Value(i) == parseIntWide(Trim(lines[i]))
        bad == { i \in 1..expectedBlocks : Value(i).isNaN }
    IN  IF Len(lines) # expectedBlocks
        THEN Throw([message |-> "Expected blocks, but file contains values",
                    expected |-> expectedBlocks, nx |-> nx, ny |-> ny, nz |-> nz,
                    actual |-> Len(lines)])
        ELSE IF bad # {}
        THEN LET i == CHOOSE j \in bad : \A h \in bad : j <= h
             IN  Throw([message |-> "Invalid value at line", line |-> i, text |-> lines[i]])
        ELSE Return([nx |-> nx, ny |-> ny, nz |-> nz,
                     values |-> Full(Array([i \in 1..expectedBlocks |-> ToInt32(Value(i).wide)],
                                           expectedBlocks))])

(***************************************************************************)
(* SpecParse: parseDatFile applied to the content of a file of at most     *)
(* MaxLines lines and to positive dimensions, as FileUpload passes them.   *)
(***************************************************************************)
MaxLines == 3

\* lines of a data file: integers, an empty line, a line with text after the
\* digits, a line of text, a padded integer
RawLines ==
    { <<"7">>, <<"-", "5">>, <<"0">>, <<>>, <<"3", "x">>, <<"x">>, <<" ", "2", " ">> }

RECURSIVE LineSeqs(_)
LineSeqs(n) ==
    IF n = 0 THEN { <<>> }
    ELSE LineSeqs(n - 1)
         \cup { Append(ls, l) : ls \in { m \in LineSeqs(n - 1) : Len(m) = n - 1 },
                                l \in RawLines }

\* the contents of the files: the lines joined by line feeds, with or
\* without a line feed after the last line
FileContents ==
    { Join(ls, LF) : ls \in LineSeqs(MaxLines) }
    \cup { Join(ls, LF) \o <<LF>> : ls \in LineSeqs(MaxLines) }

\* FileUpload.handleLoad: nx > 0 && ny > 0 && nz > 0
ParseDims ==
    { d \in Dims \X Dims \X Dims : d[1] * d[2] * d[3] <= MaxLines + 1 }

InitParse ==
    /\ blockModel \in { ModelOf(1, 1, 1) }
    /\ minedBlocks = NoMask
    /\ DefaultView
    /\ call = NoCall
    /\ AppSettled

CallParseDatFile ==
    \E content \in FileContents, d \in ParseDims :
        /\ call.fn = "none"
        /\ call' = [fn |-> "parseDatFile",
                    args |-> [content |-> content, nx |-> d[1], ny |-> d[2], nz |-> d[3]],
                    ret |-> parseDatFile(content, d[1], d[2], d[3])]
        /\ UNCHANGED <<blockModel, minedBlocks, view, app, hoveredBlock, solver>>

NextParse == CallParseDatFile

SpecParse == InitParse /\ [][NextParse]_vars

\* the lines of the content, as a reader of the file format sees them: the
\* text between line feeds, the last line with or without a line feed
FileLines(content) ==
    IF Len(content) = 0 THEN <<>>
    ELSE IF content[Len(content)] = LF
    THEN Split(SubSeq(content, 1, Len(content) - 1), LF)
    ELSE Split(content, LF)

\* a signed decimal integer: an optional sign and one or more digits
IsSignedDecimal(text) ==
    LET body == IF Len(text) > 0 /\ text[1] \in {"-", "+"} THEN Tail(text) ELSE text
    IN  Len(body) > 0 /\ \A k \in 1..Len(body) : IsDigit(body[k])

\* C18: parseDatFile rejects every line that is not a signed decimal integer
\* with an error naming the 1-based line number and the raw text; no such
\* line is accepted as a block value.
C18_RejectsNonNumericLines ==
    call.fn = "parseDatFile" =>
        LET lines == FileLines(call.args.content)
            expected == call.args.nx * call.args.ny * call.args.nz
            bad == { i \in 1..Len(lines) : ~IsSignedDecimal(Trim(lines[i])) }
        IN  (Len(lines) = expected /\ bad # {}) =>
                /\ call.ret.threw
                /\ call.ret.error.message = "Invalid value at line"
                /\ call.ret.error.line \in bad
                /\ call.ret.error.text = lines[call.ret.error.line]

\* C19: parseDatFile returns a model only when the file holds exactly
\* nx*ny*nz lines, then with values.length = nx*ny*nz, and otherwise fails
\* with an error reporting the expected and the actual count.
C19_CountMismatchReported ==
    call.fn = "parseDatFile" =>
        LET lines == FileLines(call.args.content)
            expected == call.args.nx * call.args.ny * call.args.nz
        IN  /\ ~call.ret.threw =>
                  /\ Len(lines) = expected
                  /\ Length(call.ret.value.values) =
                        call.ret.value.nx * call.ret.value.ny * call.ret.value.nz
            /\ Len(lines) # expected =>
                  /\ call.ret.threw
                  /\ call.ret.error.message = "Expected blocks, but file contains values"
                  /\ call.ret.error.expected = expected
                  /\ call.ret.error.actual = Len(lines)

(***************************************************************************)
(* electron/mineflow: runMineflow, the reading of the solver's output file *)
(* (one index of a mined block per line) into the mask and the count.      *)
(***************************************************************************)
\* the count taken over every line that holds a number
ParseOutput_countsEveryNumber(outputContent, nx, ny, nz) ==
    LET lines == Split(Trim(outputContent), LF)
        numBlocks == nx * ny * nz
        blockIndex(i) == parseInt(Trim(lines[i]))
        valid == { i \in 1..Len(lines) :
                     /\ ~blockIndex(i).isNaN
                     /\ blockIndex(i).value >= 0
                     /\ blockIndex(i).value < numBlocks }
    IN  [minedBlocks |->
             Full(Array([k \in 1..numBlocks |->
                           IF \E i \in valid : blockIndex(i).value = k - 1 THEN 1 ELSE 0],
                        numBlocks)),
         numBlocksMined |-> Cardinality({ i \in 1..Len(lines) : ~blockIndex(i).isNaN })]

\* minedBlocks starts all zero; each line whose parseInt is a number in
\* [0, numBlocks) sets minedBlocks[blockIndex] = 1 and adds one to
\* numBlocksMined
ParseOutput(outputContent, nx, ny, nz) ==
    LET lines == Split(Trim(outputContent), LF)
        numBlocks == nx * ny * nz
        blockIndex(i) == parseInt(Trim(lines[i]))
        valid == { i \in 1..Len(lines) :
                     /\ ~blockIndex(i).isNaN
                     /\ blockIndex(i).value >= 0
                     /\ blockIndex(i).value < numBlocks }
    IN  [minedBlocks |->
             Full(Array([k \in 1..numBlocks |->
                           IF \E i \in valid : blockIndex(i).value = k - 1 THEN 1 ELSE 0],
                        numBlocks)),
         numBlocksMined |-> Cardinality(valid)]

(***************************************************************************)
(* SpecOutput: the solver's output file read for a grid.                   *)
(***************************************************************************)
\* lines of an output file: indices, an index outside every grid of the
\* model, a negative index, an empty line
IndexLines ==
    { <<"0">>, <<"1">>, <<"2">>, <<"3">>, <<"9">>, <<"-", "1">>, <<>> }

RECURSIVE IndexLineSeqs(_)
IndexLineSeqs(n) ==
    IF n = 0 THEN { <<>> }
    ELSE IndexLineSeqs(n - 1)
         \cup { Append(ls, l) : ls \in { m \in IndexLineSeqs(n - 1) : Len(m) = n - 1 },
                                l \in IndexLines }

OutputContents ==
    { Join(ls, LF) : ls \in IndexLineSeqs(MaxLines) }
    \cup { Join(ls, LF) \o <<LF>> : ls \in IndexLineSeqs(MaxLines) }

InitOutput ==
    /\ blockModel \in { ModelOf(d[1], d[2], d[3]) : d \in ParseDims }
    /\ minedBlocks = NoMask
    /\ DefaultView
    /\ call = NoCall
    /\ AppSettled

\* params.nx, params.ny, params.nz are those of the model (ParameterPanel)
CallParseOutput ==
    \E content \in OutputContents :
        /\ call.fn = "none"
        /\ call' = [fn |-> "ParseOutput", args |-> content,
                    ret |-> ParseOutput(content, blockModel.nx, blockModel.ny,
                                        blockModel.nz)]
        /\ UNCHANGED <<blockModel, minedBlocks, view, app, hoveredBlock, solver>>

NextOutput == CallParseOutput

SpecOutput == InitOutput /\ [][NextOutput]_vars

\* the index held by line i of the output file, for a line that holds one
LineHoldsIndex(text) == IsSignedDecimal(Trim(text))
LineIndex(text) ==
    LET t == Trim(text)
        body == IF t[1] \in {"-", "+"} THEN Tail(t) ELSE t
        magnitude == DigitsValue(body, 0)
    IN  IF t[1] = "-" THEN -magnitude ELSE magnitude
\* the lines of the output file that hold an index of the grid
InRangeLines ==
    LET lines == FileLines(call.args)
    IN  { i \in 1..Len(lines) :
            LineHoldsIndex(lines[i]) /\ LineIndex(lines[i]) \in Blocks }
\* the set bits of the mask returned
SetBits == { k \in Blocks : Elem(call.ret.minedBlocks, k) = 1 }

\* C13: numBlocksMined counts a block index that appears more than once in
\* the solver output once: it equals the number of bits set in the mask.
C13_CountIsMaskPopulation ==
    call.fn = "ParseOutput" => call.ret.numBlocksMined = Cardinality(SetBits)

\* C14: every line holding an index of the grid sets that block's bit, no
\* other bit is set, and a line whose index is outside the grid changes no
\* bit and is not counted in numBlocksMined.
C14_InRangeLinesSetBits ==
    call.fn = "ParseOutput" =>
        LET lines == FileLines(call.args)
        IN  /\ Length(call.ret.minedBlocks) = Total
            /\ SetBits = { LineIndex(lines[i]) : i \in InRangeLines }
            /\ call.ret.numBlocksMined = Cardinality(InRangeLines)

\* the 2x1x1 grid and the lines 1 and 9: bit 1 is set, 9 is ignored
C14_Witness ==
    /\ call.fn = "ParseOutput"
    /\ Total = 2
    /\ call.args = <<"1", LF, "9">>
    /\ call.ret.minedBlocks = Full(<<0, 1>>)
    /\ call.ret.numBlocksMined = 1

(***************************************************************************)
(* Export.  lib/fileParser exportToCSV; ResultsPanel.handleExportCSV;      *)
(* App.handleExport; the 'export-results' handler of the main process.     *)
(***************************************************************************)
CsvHeader ==
    <<"x", ",", "y", ",", "z", ",", "v", "a", "l", "u", "e", ",", "m", "i", "n", "e", "d">>

\* `${x},${y},${z},${value},${mined}`
CsvRow(x, y, z, value, mined) ==
    Join(<<NumberToString(x), NumberToString(y), NumberToString(z),
           NumberToString(value), NumberToString(mined)>>, ",")

\* the three nested loops (z, then y, then x) push one row per block, with
\* idx running from 0: row idx is that of x = idx % nx, y = (idx / nx) % ny,
\* z = idx / (nx * ny)
exportToCSV(model, mined) ==
    LET total == model.nx * model.ny * model.nz
        Row(idx) == CsvRow(idx % model.nx, (idx \div model.nx) % model.ny,
                           idx \div (model.nx * model.ny),
                           Elem(model.values, idx), Elem(mined, idx))
    IN  Join(<<CsvHeader>> \o Array([k \in 1..total |-> Row(k - 1)], total), LF)

\* the UTF-8 code of a character of the texts written here (all ASCII)
CharCode(c) ==
    CASE c = LF -> 10
      [] c = " " -> 32
      [] c = "+" -> 43
      [] c = "," -> 44
      [] c = "-" -> 45
      [] IsDigit(c) -> 48 + DigitValue(c)
      [] c = "a" -> 97
      [] c = "d" -> 100
      [] c = "e" -> 101
      [] c = "i" -> 105
      [] c = "l" -> 108
      [] c = "m" -> 109
      [] c = "n" -> 110
      [] c = "u" -> 117
      [] c = "v" -> 118
      [] c = "x" -> 120
      [] c = "y" -> 121
      [] c = "z" -> 122

\* new Uint8Array(await new Blob([csv]).arrayBuffer()): the UTF-8 bytes
BlobBytes(text) == Full(Array([k \in 1..Len(text) |-> CharCode(text[k])], Len(text)))

\* Array.from(data), for a Uint8Array
ArrayFrom(data) == Array([k \in 1..Length(data) |-> Elem(data, k - 1)], Length(data))

\* ipcMain.handle('export-results'): the text written to outputPath is the
\* elements of data as decimal numbers, joined by line feeds
ExportResultsFile(data) ==
    LET elements == ArrayFrom(data)
    IN  Join(Array([k \in 1..Len(elements) |-> NumberToString(elements[k])],
                   Len(elements)), LF)

(***************************************************************************)
(* SpecExport: the two export buttons of ResultsPanel, shown for a solved  *)
(* model.  The save dialog returns a path or null (cancelled).             *)
(***************************************************************************)
NoPath == [chosen |-> FALSE]
SomePath == [chosen |-> TRUE]

InitExport ==
    /\ blockModel \in RenderModels
    /\ minedBlocks \in Masks(Length(blockModel.values))
    /\ DefaultView
    /\ call = NoCall
    /\ AppSettled

\* ResultsPanel.handleExportCSV
HandleExportCSV ==
    \E outputPath \in {NoPath, SomePath} :
        LET csv == exportToCSV(blockModel, minedBlocks.bits)
        IN  /\ call' = [fn |-> "handleExportCSV",
                        written |-> outputPath.chosen,
                        file |-> IF outputPath.chosen
                                 THEN ExportResultsFile(BlobBytes(csv))
                                 ELSE <<>>]
            /\ UNCHANGED <<blockModel, minedBlocks, view, app, hoveredBlock, solver>>

\* App.handleExport ("Export .dat File")
HandleExport ==
    \E outputPath \in {NoPath, SomePath} :
        /\ minedBlocks.defined
        /\ call' = [fn |-> "handleExport",
                    written |-> outputPath.chosen,
                    file |-> IF outputPath.chosen
                             THEN ExportResultsFile(minedBlocks.bits)
                             ELSE <<>>]
        /\ UNCHANGED <<blockModel, minedBlocks, view, app, hoveredBlock, solver>>

NextExport == HandleExportCSV \/ HandleExport

SpecExport == InitExport /\ [][NextExport]_vars

\* text is the CSV of the current model and mask: the header, then one row
\* per block in index order with the block's coordinates, value and mask bit
IsCsvOfModel(text) ==
    LET lines == FileLines(text)
    IN  /\ Len(lines) = Total + 1
        /\ lines[1] = CsvHeader
        /\ \A c \in Cells :
              lines[IndexOfCell(c) + 2] =
                  CsvRow(c[1], c[2], c[3], Elem(blockModel.values, IndexOfCell(c)),
                         Elem(minedBlocks.bits, IndexOfCell(c)))

\* C11: the file written by the Export as CSV action is the header
\* x,y,z,value,mined followed by one row per block in x-fastest order, row k
\* holding the coordinates of block k, values[k] and mask[k].
C11_CsvFileIsCsv ==
    (call.fn = "handleExportCSV" /\ call.written) => IsCsvOfModel(call.file)

\* C12: reading the file written by the raw mask export back with the reader
\* of the solver's output format reproduces the exported mask.
C12_MaskExportRoundTrip ==
    (call.fn = "handleExport" /\ call.written) =>
        ParseOutput(call.file, blockModel.nx, blockModel.ny, blockModel.nz).minedBlocks
            = minedBlocks.bits

(***************************************************************************)
(* SpecQuery: the two index conversions applied to arguments in and around *)
(* the grid.  Neither function has a throw statement: each call returns.   *)
(***************************************************************************)
QueryGetBlockIndex ==
    \E x \in (-1)..blockModel.nx, y \in (-1)..blockModel.ny, z \in (-1)..blockModel.nz :
        /\ call' = [fn |-> "getBlockIndex", args |-> [x |-> x, y |-> y, z |-> z],
                    outcome |-> Return(getBlockIndex(x, y, z, blockModel.nx,
                                                     blockModel.ny))]
        /\ UNCHANGED <<blockModel, minedBlocks, view, app, hoveredBlock, solver>>

QueryGetBlockCoords ==
    \E i \in (-1)..Length(blockModel.values) :
        /\ call' = [fn |-> "getBlockCoords", args |-> i,
                    outcome |-> Return(getBlockCoords(i, blockModel.nx, blockModel.ny))]
        /\ UNCHANGED <<blockModel, minedBlocks, view, app, hoveredBlock, solver>>

NextQuery == QueryGetBlockIndex \/ QueryGetBlockCoords

SpecQuery == InitGrid /\ [][NextQuery]_vars

\* C15: a coordinate or index query outside the grid fails with an
\* OutOfRange error instead of returning a value.
C15_OutOfRangeQueryFails ==
    /\ (call.fn = "getBlockIndex"
          /\ <<call.args.x, call.args.y, call.args.z>> \notin Cells) =>
            call.outcome.threw
    /\ (call.fn = "getBlockCoords" /\ call.args \notin Blocks) => call.outcome.threw

(***************************************************************************)
(* SpecStats: calculateStats applied to a model, the model with no blocks  *)
(* included, and an optional mask.                                         *)
(***************************************************************************)
EmptyModel == [nx |-> 0, ny |-> 0, nz |-> 0, values |-> TypedArray(0, <<>>)]

InitStats ==
    /\ blockModel \in Models \cup {EmptyModel}
    /\ minedBlocks \in {NoMask} \cup Masks(Length(blockModel.values))
    /\ DefaultView
    /\ call = NoCall
    /\ AppSettled

CallCalculateStats ==
    /\ call' = [fn |-> "calculateStats",
                outcome |-> Return(calculateStats(blockModel, minedBlocks))]
    /\ UNCHANGED <<blockModel, minedBlocks, view, app, hoveredBlock, solver>>

NextStats == CallCalculateStats

SpecStats == InitStats /\ [][NextStats]_vars

\* C16: calculateStats applied to an empty model fails with an EmptyModel
\* error rather than returning statistics.
C16_EmptyModelFails ==
    (call.fn = "calculateStats" /\ Length(blockModel.values) = 0) => call.outcome.threw

(***************************************************************************)
(* SpecColor: colours by value for models that include the models whose    *)
(* values are all 0 (maxAbsValue = 0): valueToColor applied to a block,    *)
(* the render set, the surface mesh.                                       *)
(***************************************************************************)
ZeroModels ==
    { [nx |-> m.nx, ny |-> m.ny, nz |-> m.nz,
       values |-> TypedArray(Length(m.values), <<0>>)] : m \in RenderModels }

InitColor ==
    /\ blockModel \in RenderModels \cup ZeroModels
    /\ minedBlocks \in {NoMask} \cup Masks(Length(blockModel.values))
    /\ viewMode = "all"
    /\ currentLayer = NoLayer
    /\ sliceDimension = "z"
    /\ colorScheme \in {"value", "mined"}
    /\ showWireframe \in BOOLEAN
    /\ call = NoCall
    /\ AppSettled

\* color.copy(valueToColor(blockValue, stats.maxAbsValue)) for block i
CallValueToColor ==
    \E i \in 0..(Length(blockModel.values) - 1) :
        LET stats == calculateStats(blockModel, minedBlocks)
        IN  /\ call' = [fn |-> "valueToColor",
                        args |-> [value |-> Elem(blockModel.values, i),
                                  maxAbsValue |-> stats.maxAbsValue],
                        ret |-> valueToColor(Elem(blockModel.values, i),
                                             stats.maxAbsValue)]
            /\ UNCHANGED <<blockModel, minedBlocks, view, app, hoveredBlock, solver>>

NextColor == CallValueToColor \/ CallBlockInstances \/ CallSurfaceMesh

SpecColor == InitColor /\ [][NextColor]_vars

\* a colour whose three components are numbers
IsDefinedColor(c) == \A k \in 1..3 : c[k][2] # 0

\* C17: when maxAbsValue is 0 the by-value colour of a block is the colour of
\* the zero end of the scale, (1, 1, 0), and every colour component placed in
\* the render set or in the mesh is a number.
C17_ZeroScaleColorDefined ==
    /\ (call.fn = "valueToColor" /\ call.args.maxAbsValue = 0) =>
          (IsDefinedColor(call.ret) /\ call.ret = <<One, One, Zero>>)
    /\ call.fn = "BlockInstances" =>
          \A k \in 1..Len(RenderSet.colors) : IsDefinedColor(RenderSet.colors[k])
    /\ call.fn = "SurfaceMesh" =>
          \A k \in 1..Len(call.ret.colors) : IsDefinedColor(call.ret.colors[k])

(***************************************************************************)
(* SpecApp: App loads files and solves them.  A handler runs up to its     *)
(* await and App waits (pending); the rest of the handler, or its catch    *)
(* block, runs when the promise settles.  The parts of a handler are       *)
(* functions from the state of App to the state of App.                    *)
(***************************************************************************)
\* at most MaxSolves solves succeed
MaxSolves == 2
\* the dimensions typed into FileUpload give at most MaxAppBlocks blocks
MaxAppBlocks == 2

AppState ==
    [blockModel |-> blockModel, minedBlocks |-> minedBlocks,
     numBlocksMined |-> numBlocksMined, isLoading |-> isLoading, error |-> error,
     dataFilePath |-> dataFilePath, solveCount |-> solveCount,
     currentLayer |-> currentLayer]

SetAppState(s) ==
    /\ blockModel' = s.blockModel
    /\ minedBlocks' = s.minedBlocks
    /\ numBlocksMined' = s.numBlocksMined
    /\ isLoading' = s.isLoading
    /\ error' = s.error
    /\ dataFilePath' = s.dataFilePath
    /\ solveCount' = s.solveCount
    /\ currentLayer' = s.currentLayer
    /\ UNCHANGED <<viewMode, sliceDimension, colorScheme, showWireframe>>

handleFileUpload_then_keepsResult(s, filePath, model) ==
    [s EXCEPT !.blockModel = model, !.dataFilePath = filePath,
              !.currentLayer = NoLayer, !.isLoading = FALSE]

handleFileUpload_catch_keepsLoading(s, err) == [s EXCEPT !.error = err]

handleSolve_begin_noFlag(s) ==
    IF s.dataFilePath = Null
    THEN [s EXCEPT !.error = [message |-> "No data file loaded"]]
    ELSE [s EXCEPT !.error = Null]

\* handleFileUpload up to the await of readFile
handleFileUpload_begin(s) == [s EXCEPT !.isLoading = TRUE, !.error = Null]

\* handleFileUpload after parseDatFile returned model
handleFileUpload_then(s, filePath, model) ==
    [s EXCEPT !.blockModel = model, !.dataFilePath = filePath,
              !.minedBlocks = NoMask, !.numBlocksMined = Null,
              !.currentLayer = NoLayer, !.isLoading = FALSE]

\* the catch block of handleFileUpload
handleFileUpload_catch(s, err) == [s EXCEPT !.error = err, !.isLoading = FALSE]

\* handleSolve up to the await of solve
handleSolve_begin(s) ==
    IF s.dataFilePath = Null
    THEN [s EXCEPT !.error = [message |-> "No data file loaded"]]
    ELSE [s EXCEPT !.isLoading = TRUE, !.error = Null]

\* handleSolve after solve returned result
handleSolve_then(s, result) ==
    [s EXCEPT !.minedBlocks = [defined |-> TRUE, bits |-> result.minedBlocks],
              !.numBlocksMined = Number(result.numBlocksMined),
              !.solveCount = @ + 1, !.isLoading = FALSE]

handleSolve_catch_clearsResult(s, err) ==
    [s EXCEPT !.error = err, !.isLoading = FALSE,
              !.minedBlocks = NoMask, !.numBlocksMined = Null]

\* the catch block of handleSolve
handleSolve_catch(s, err) == [s EXCEPT !.error = err, !.isLoading = FALSE]

DataPaths == { Path("a.dat"), Path("b.dat") }

AppDims == { d \in Dims \X Dims \X Dims : d[1] * d[2] * d[3] <= MaxAppBlocks }

\* what readFile finds in a data file
AppContents ==
    { <<"7">>, <<"7", LF, "-", "5">>, <<"0", LF, "3">>, <<"x">> }

\* what the solver leaves in its output file
SolverOutputs ==
    { <<>>, <<"0">>, <<"1">>, <<"0", LF, "1">>, <<"0", LF, "0">> }

InitApp ==
    /\ blockModel = Null
    /\ minedBlocks = NoMask
    /\ DefaultView
    /\ call = NoCall
    /\ isLoading = FALSE
    /\ error = Null
    /\ dataFilePath = Null
    /\ solveCount = 0
    /\ numBlocksMined = Null
    /\ pending = <<>>
    /\ hoveredBlock = Null
    /\ run = NoRun
    /\ tempDir = Null

\* FileUpload.handleLoad: the Load button is disabled while isLoading
LoadFileOf(paths, dims) ==
    \E filePath \in paths, d \in dims :
        /\ ~isLoading
        /\ SetAppState(handleFileUpload_begin(AppState))
        /\ pending' = Append(pending, [op |-> "load", filePath |-> filePath,
                                       nx |-> d[1], ny |-> d[2], nz |-> d[3]])
        /\ call' = [fn |-> "handleFileUpload", phase |-> "begin"]
        /\ UNCHANGED <<hoveredBlock, solver>>

LoadFile == LoadFileOf(DataPaths, AppDims)

\* what readFile does: it throws or returns the content of the file
ReadFileOutcomes ==
    { Throw([message |-> "Failed to read file"]) } \cup { Return(c) : c \in AppContents }

\* readFile settles: it throws or returns the content, which is parsed
LoadSettlesWith(reads) ==
    \E k \in 1..Len(pending) :
        /\ pending[k].op = "load"
        /\ \E read \in reads :
            LET p == pending[k]
                parsed == IF read.threw THEN read
                          ELSE parseDatFile(read.value, p.nx, p.ny, p.nz)
            IN  IF parsed.threw
                THEN /\ SetAppState(handleFileUpload_catch(AppState, parsed.error))
                     /\ call' = [fn |-> "handleFileUpload", phase |-> "catch"]
                ELSE /\ SetAppState(handleFileUpload_then(AppState, p.filePath,
                                                          parsed.value))
                     /\ call' = [fn |-> "handleFileUpload", phase |-> "then"]
        /\ pending' = Remove(pending, k)
        /\ UNCHANGED <<hoveredBlock, solver>>

LoadSettles == LoadSettlesWith(ReadFileOutcomes)

\* ParameterPanel.handleSolve in mode 'regular': the panel is there when
\* there is a model, its button is disabled while isLoading
Solve ==
    /\ blockModel # Null
    /\ ~isLoading
    /\ solveCount < MaxSolves
    /\ SetAppState(handleSolve_begin(AppState))
    /\ pending' = IF dataFilePath = Null THEN pending
                  ELSE Append(pending, [op |-> "solve", dataPath |-> dataFilePath,
                                        nx |-> blockModel.nx, ny |-> blockModel.ny,
                                        nz |-> blockModel.nz])
    /\ call' = [fn |-> "handleSolve", phase |-> "begin"]
    /\ UNCHANGED <<hoveredBlock, solver>>

\* what runMineflow does: it throws or reads what the solver wrote
SolveOutcomes ==
    { Throw([message |-> "Solver error"]) } \cup { Return(c) : c \in SolverOutputs }

\* solve settles: it throws or returns the result read from the output file
SolveSettlesWith(outs) ==
    \E k \in 1..Len(pending) :
        /\ pending[k].op = "solve"
        /\ \E out \in outs :
            LET p == pending[k]
            IN  IF out.threw
                THEN /\ SetAppState(handleSolve_catch(AppState, out.error))
                     /\ call' = [fn |-> "handleSolve", phase |-> "catch"]
                ELSE /\ SetAppState(handleSolve_then(AppState,
                             ParseOutput(out.value, p.nx, p.ny, p.nz)))
                     /\ call' = [fn |-> "handleSolve", phase |-> "then"]
        /\ pending' = Remove(pending, k)
        /\ UNCHANGED <<hoveredBlock, solver>>

SolveSettles == SolveSettlesWith(SolveOutcomes)

NextApp == LoadFile \/ LoadSettles \/ Solve \/ SolveSettles

SpecApp == InitApp /\ [][NextApp]_vars

\* the promise of readFile and the promise of solve settle
SpecAppLive == SpecApp /\ WF_vars(LoadSettles) /\ WF_vars(SolveSettles)

\* what App shows: the model, its file, the result of the last solve, the
\* solve counter and the view
Displayed ==
    <<blockModel, dataFilePath, minedBlocks, numBlocksMined, solveCount, view>>

\* C20: a failed operation leaves the displayed state untouched: the steps
\* of a load that fails or of a solve that fails (the handler up to its
\* await, then its catch block) leave the model, the data-file path, the
\* mask and count of the last solve, the solve counter and the view as they
\* were, and change only the error message and the loading flag.
C20_FailureKeepsDisplayedState ==
    [][(/\ call'.fn \in {"handleFileUpload", "handleSolve"}
        /\ call'.phase \in {"begin", "catch"}) => UNCHANGED Displayed]_vars

\* a load or a solve that failed over a loaded and solved model
C20_Witness ==
    /\ call.fn \in {"handleFileUpload", "handleSolve"}
    /\ call.phase = "catch"
    /\ blockModel # Null
    /\ minedBlocks.defined
    /\ solveCount > 0
    /\ error # Null
    /\ ~isLoading

\* C27: whenever the render set omits a block that passes the slice, view
\* and surface-only filters of the view state, isLimited is true (the notice
\* "Showing sample of blocks" is displayed).
C27_OmissionShowsNotice ==
    (call.fn = "BlockInstances" /\ RenderSet.instanceToBlockIndex # PassingBlocks) =>
        call.isLimited

\* C23: at most one load or solve is in flight at any time: no solve is
\* started while a solve or a load is pending, no load while a solve or a
\* load is pending, and isLoading is true while one is pending.
C23_OneOperationInFlight ==
    /\ Len(pending) <= 1
    /\ pending # <<>> => isLoading

\* a second solve of the same model is in flight, alone
C23_Witness ==
    /\ Len(pending) = 1
    /\ pending[1].op = "solve"
    /\ solveCount > 0
    /\ isLoading

\* C28: whenever a mask is present its length is values.length of the model
\* that is displayed.
C28_MaskFitsModel ==
    minedBlocks.defined =>
        /\ blockModel # Null
        /\ Length(minedBlocks.bits) = Length(blockModel.values)

\* a solved one-block model was replaced by a two-block model, which was
\* solved in its turn
C28_Witness ==
    /\ call.fn = "handleSolve" /\ call.phase = "then"
    /\ solveCount = 2
    /\ minedBlocks.defined
    /\ Length(minedBlocks.bits) = 2
    /\ Length(blockModel.values) = 2

\* C29: a load or a solve that was started ends with isLoading false once
\* its promise settles; isLoading is true exactly while an operation is in
\* flight; a load or a solve that starts clears the error message.
C29_LoadingEnds ==
    /\ [](isLoading <=> pending # <<>>)
    /\ isLoading ~> ~isLoading
    /\ [][(pending = <<>> /\ pending' # <<>>) => error' = Null]_vars

\* a load that failed has ended: the flag is down and the message is shown
C29_Witness ==
    /\ call.fn = "handleFileUpload" /\ call.phase = "catch"
    /\ ~isLoading
    /\ pending = <<>>
    /\ error # Null

(***************************************************************************)
(* SpecSolver: a solve from the button to the result.  handleSolve begins  *)
(* (Solve), the 'solve' handler of the main process calls runMineflow      *)
(* (RunStart), the solver process writes its output file and ends, the     *)
(* rest of runMineflow or its catch block runs, and the result or the      *)
(* error reaches handleSolve (SolveDelivered).                             *)
(*                                                                         *)
(* tempDir is Null when the directory of the last invocation does not      *)
(* exist, else [output |-> Null] or [output |-> [content |-> c]].          *)
(* fs.unlinkSync and fs.rmdirSync can throw: the two cleanup blocks catch  *)
(* and ignore what they throw.                                             *)
(***************************************************************************)
ExitCodes == { Number(0), Number(1), Null }

\* child.on('close'): what the handler does with the promise
closeSettles_alwaysResolves(code) == "resolve"

closeSettles(code) == IF code # Number(0) THEN "reject" ELSE "resolve"

\* the cleanup block of the try: unlinkSync, then rmdirSync, errors ignored.
\* unlinkSync throws when there is no output file or when it fails (unlinkOk
\* false), and then rmdirSync is not reached
\* dir is the directory afterwards, ignored whether an error was caught
CleanupAfterSuccess(dir, unlinkOk, rmdirOk) ==
    IF dir.output = Null \/ ~unlinkOk THEN [dir |-> dir, ignored |-> TRUE]
    ELSE IF rmdirOk THEN [dir |-> Null, ignored |-> FALSE]
    ELSE [dir |-> [output |-> Null], ignored |-> TRUE]

\* the cleanup of the catch without its rmdirSync
CleanupAfterError_fileOnly(dir, unlinkOk, rmdirOk) ==
    IF dir.output # Null /\ ~unlinkOk THEN [dir |-> dir, ignored |-> TRUE]
    ELSE [dir |-> [output |-> Null], ignored |-> FALSE]

\* the cleanup block of the catch: unlinkSync if existsSync, then rmdirSync,
\* errors ignored.  rmdirSync throws on a directory that is not empty
CleanupAfterError(dir, unlinkOk, rmdirOk) ==
    IF dir.output # Null /\ ~unlinkOk THEN [dir |-> dir, ignored |-> TRUE]
    ELSE IF rmdirOk THEN [dir |-> Null, ignored |-> FALSE]
    ELSE [dir |-> [output |-> Null], ignored |-> TRUE]

\* runMineflow between its call and its first await, or its throw
runMineflow_begin(executableFound, mode, hasFile) ==
    IF ~executableFound
    THEN [pc |-> "threw", created |-> FALSE, exit |-> Null, outputRead |-> FALSE,
          hadOutput |-> FALSE, cleanupIgnored |-> FALSE, result |-> Null,
          error |-> [message |-> "Mineflow executable not found"]]
    ELSE IF mode = "minsearch" /\ ~hasFile
    THEN [pc |-> "rejected", created |-> TRUE, exit |-> Null, outputRead |-> FALSE,
          hadOutput |-> FALSE, cleanupIgnored |-> FALSE, result |-> Null,
          error |-> [message |-> "Pattern file required for minsearch mode"]]
    ELSE IF mode = "explicit" /\ ~hasFile
    THEN [pc |-> "rejected", created |-> TRUE, exit |-> Null, outputRead |-> FALSE,
          hadOutput |-> FALSE, cleanupIgnored |-> FALSE, result |-> Null,
          error |-> [message |-> "Precedence file required for explicit mode"]]
    ELSE [pc |-> "running", created |-> TRUE, exit |-> Null, outputRead |-> FALSE,
          hadOutput |-> FALSE, cleanupIgnored |-> FALSE, result |-> Null, error |-> Null]

InitSolver ==
    /\ blockModel \in { ModelOf(d[1], d[2], d[3]) : d \in AppDims }
    /\ minedBlocks = NoMask
    /\ DefaultView
    /\ call = NoCall
    /\ AppSettled

\* ipcMain.handle('solve'): runMineflow is called for the solve in flight
RunStart ==
    \E executableFound \in BOOLEAN, mode \in {"regular", "minsearch", "explicit"},
       hasFile \in BOOLEAN :
        /\ run.pc \in {"idle", "delivered"}
        /\ Len(pending) > 0
        /\ pending[1].op = "solve"
        /\ run' = runMineflow_begin(executableFound, mode, hasFile)
        /\ tempDir' = IF executableFound THEN [output |-> Null] ELSE tempDir
        /\ call' = [fn |-> "runMineflow", phase |-> "begin"]
        /\ UNCHANGED <<blockModel, minedBlocks, view, app, hoveredBlock>>

\* the solver process writes (or rewrites) its output file
ProcessWrites ==
    \E c \in SolverOutputs :
        /\ run.pc = "running"
        /\ tempDir' = [output |-> [content |-> c]]
        /\ call' = [fn |-> "mineflow", phase |-> "write"]
        /\ UNCHANGED <<blockModel, minedBlocks, view, app, hoveredBlock, run>>

\* child.on('error'): the process could not be spawned
ProcessError ==
    /\ run.pc = "running"
    /\ tempDir.output = Null
    /\ run' = [run EXCEPT !.pc = "rejected",
                          !.error = [message |-> "Failed to execute mineflow"]]
    /\ call' = [fn |-> "mineflow", phase |-> "error"]
    /\ UNCHANGED <<blockModel, minedBlocks, view, app, hoveredBlock, tempDir>>

\* child.on('close'): the process ended with an exit code, or was terminated
\* by a signal (code null)
ProcessCloses ==
    \E code \in ExitCodes :
        /\ run.pc = "running"
        /\ run' = IF closeSettles(code) = "resolve"
                  THEN [run EXCEPT !.pc = "resolved", !.exit = code,
                                   !.hadOutput = (tempDir.output # Null)]
                  ELSE [run EXCEPT !.pc = "rejected", !.exit = code,
                                   !.hadOutput = (tempDir.output # Null),
                                   !.error = [message |-> "Mineflow exited with code",
                                              code |-> code]]
        /\ call' = [fn |-> "mineflow", phase |-> "close"]
        /\ UNCHANGED <<blockModel, minedBlocks, view, app, hoveredBlock, tempDir>>

\* runMineflow after the await: the output file is read and turned into the
\* mask, the temp directory is cleaned up, the result is returned; a
\* readFileSync that throws goes to the catch block
RunReads ==
    \E unlinkOk \in BOOLEAN, rmdirOk \in BOOLEAN :
        /\ run.pc = "resolved"
        /\ IF tempDir.output = Null
           THEN LET c == CleanupAfterError(tempDir, unlinkOk, rmdirOk)
                IN  /\ run' = [run EXCEPT !.pc = "threw",
                                          !.cleanupIgnored = c.ignored,
                                          !.error = [message |-> "ENOENT"]]
                    /\ tempDir' = c.dir
           ELSE LET c == CleanupAfterSuccess(tempDir, unlinkOk, rmdirOk)
                IN  /\ run' = [run EXCEPT !.pc = "returned", !.outputRead = TRUE,
                                          !.cleanupIgnored = c.ignored,
                                          !.result = ParseOutput(tempDir.output.content,
                                                         pending[1].nx, pending[1].ny,
                                                         pending[1].nz)]
                    /\ tempDir' = c.dir
        /\ call' = [fn |-> "runMineflow", phase |-> "then"]
        /\ UNCHANGED <<blockModel, minedBlocks, view, app, hoveredBlock>>

\* the catch block of runMineflow: cleanup, then the error is thrown again
RunCatches ==
    \E unlinkOk \in BOOLEAN, rmdirOk \in BOOLEAN :
        /\ run.pc = "rejected"
        /\ LET c == CleanupAfterError(tempDir, unlinkOk, rmdirOk)
           IN  /\ run' = [run EXCEPT !.pc = "threw", !.cleanupIgnored = c.ignored]
               /\ tempDir' = c.dir
        /\ call' = [fn |-> "runMineflow", phase |-> "catch"]
        /\ UNCHANGED <<blockModel, minedBlocks, view, app, hoveredBlock>>

\* the promise of window.mineflow.solve settles and handleSolve goes on
SolveDelivered ==
    /\ run.pc \in {"returned", "threw"}
    /\ IF run.pc = "returned"
       THEN /\ SetAppState(handleSolve_then(AppState, run.result))
            /\ call' = [fn |-> "handleSolve", phase |-> "then"]
       ELSE /\ SetAppState(handleSolve_catch(AppState,
                               [message |-> "Solver error", cause |-> run.error]))
            /\ call' = [fn |-> "handleSolve", phase |-> "catch"]
    /\ pending' = Tail(pending)
    /\ run' = [run EXCEPT !.pc = "delivered"]
    /\ UNCHANGED <<hoveredBlock, tempDir>>

NextSolver ==
    \/ Solve \/ RunStart \/ ProcessWrites \/ ProcessError \/ ProcessCloses
    \/ RunReads \/ RunCatches \/ SolveDelivered

SpecSolver == InitSolver /\ [][NextSolver]_vars

\* C21 as stated: an invocation of runMineflow that created a temp
\* directory has removed the output file and the directory when it returns
\* or throws.
C21_TempDirRemoved_Original ==
    (run.pc \in {"returned", "threw"} /\ run.created) => tempDir = Null

\* C21 amended: an invocation of runMineflow that created a temp directory
\* has run its cleanup when it returns or throws, on the success path and on
\* every failure path; the output file and the directory are removed unless
\* unlinkSync or rmdirSync threw, in which case the error is ignored and the
\* directory is left behind.
C21_TempDirRemovedUnlessCleanupThrows ==
    (run.pc \in {"returned", "threw"} /\ run.created) =>
        (tempDir = Null <=> ~run.cleanupIgnored)

\* the process ended with a non-zero code or a signal after it had written
\* an output file: runMineflow throws with the file and the directory removed
C21_Witness ==
    /\ run.pc = "threw"
    /\ run.created
    /\ run.exit # Number(0)
    /\ run.hadOutput
    /\ ~run.cleanupIgnored
    /\ tempDir = Null

\* C22: the output file is read only after the process closed with exit
\* code 0; when the process ends otherwise (non-zero code, termination by a
\* signal, spawn failure) the call rejects, the output file is not read and
\* the mask that is displayed stays as it was.
C22_OutputReadAfterExitZero ==
    /\ [](run.pc # "idle" =>
            /\ run.outputRead => run.exit = Number(0)
            /\ run.pc = "returned" => (run.outputRead /\ run.exit = Number(0)))
    /\ [][(run.pc = "threw" /\ run'.pc = "delivered") =>
            /\ call'.phase = "catch"
            /\ UNCHANGED <<minedBlocks, numBlocksMined, solveCount>>]_vars

\* a second solve ended with a non-zero code or a signal after the process
\* had written an output file: the file was not read, the mask of the first
\* solve is displayed
C22_Witness ==
    /\ run.pc = "delivered"
    /\ run.exit # Number(0)
    /\ run.hadOutput
    /\ ~run.outputRead
    /\ call.fn = "handleSolve" /\ call.phase = "catch"
    /\ minedBlocks.defined
    /\ solveCount = 1

(***************************************************************************)
(* Hover picking: handlePointerMove and handlePointerOut of                *)
(* BlockInstances, handleBlockHover of Visualization3D.  Positions are     *)
(* doubled, as in the render set.                                          *)
(***************************************************************************)
\* undefined of JavaScript
Undefined == [isUndefined |-> TRUE]

\* the picker's position taken without the swap of y and z
PickedPosition2_noSwap(bm, coords) ==
    << 2 * coords.x - bm.nx, 2 * coords.y - bm.ny, 2 * coords.z - bm.nz >>

\* handlePointerMove: x = coords.x - centerX, y = coords.z - centerZ,
\* z = coords.y - centerY
PickedPosition2(bm, coords) ==
    << 2 * coords.x - bm.nx, 2 * coords.z - bm.nz, 2 * coords.y - bm.ny >>

\* handlePointerMove for event.instanceId: the arguments it calls
\* onBlockHover with, or no call
handlePointerMove(instanceId, instanceToBlockIndex, bm) ==
    IF instanceId # Undefined /\ instanceId.value < Len(instanceToBlockIndex)
    THEN LET blockIndex == instanceToBlockIndex[instanceId.value + 1]
         IN  [called |-> TRUE, blockIndex |-> blockIndex,
              position |-> PickedPosition2(bm, getBlockCoords(blockIndex, bm.nx, bm.ny))]
    ELSE [called |-> FALSE]

\* handleBlockHover: the next hoveredBlock; blockIndex and position are Null
\* or [value |-> v]
handleBlockHover(hovered, blockIndex, position) ==
    IF blockIndex # Null /\ position # Null
    THEN [index |-> blockIndex.value, position |-> position.value]
    ELSE Null

\* Visualization3D shows BlockInstances, and BlockInstances an instanced mesh
MeshShown ==
    /\ blockModel # Null
    /\ ~(showWireframe /\ minedBlocks.defined)
    /\ RenderSet.count > 0

\* onPointerMove of the instanced mesh.  The "Processing..." overlay covers
\* the canvas while isLoading.
PointerMove ==
    /\ MeshShown
    /\ ~isLoading
    /\ \E instanceId \in {Undefined} \cup { Number(k) : k \in 0..RenderSet.count } :
        LET hit == handlePointerMove(instanceId, RenderSet.instanceToBlockIndex,
                                     blockModel)
        IN  /\ hoveredBlock' =
                  IF hit.called
                  THEN handleBlockHover(hoveredBlock, [value |-> hit.blockIndex],
                                        [value |-> hit.position])
                  ELSE hoveredBlock
            /\ call' = [fn |-> "handlePointerMove", instanceId |-> instanceId,
                        hit |-> hit]
    /\ UNCHANGED <<blockModel, minedBlocks, view, app, solver>>

\* onPointerOut of the instanced mesh
PointerOut ==
    /\ MeshShown
    /\ ~isLoading
    /\ hoveredBlock' = handleBlockHover(hoveredBlock, Null, Null)
    /\ call' = [fn |-> "handlePointerOut"]
    /\ UNCHANGED <<blockModel, minedBlocks, view, app, solver>>

(***************************************************************************)
(* SpecPick: pointer events over the render set of a model, an optional    *)
(* mask and a view state.                                                  *)
(***************************************************************************)
\* the models under the pointer have at most MaxPickBlocks blocks
MaxPickBlocks == 4

PickModels ==
    { ModelOf(d[1], d[2], d[3]) :
        d \in { e \in Dims \X Dims \X Dims : e[1] * e[2] * e[3] <= MaxPickBlocks } }

InitPick ==
    /\ blockModel \in PickModels
    /\ minedBlocks \in {NoMask} \cup Masks(Length(blockModel.values))
    /\ sliceDimension \in {"x", "y", "z"}
    /\ colorScheme = "value"
    /\ viewMode \in {"all", "mined", "unmined"}
    /\ currentLayer \in Layers(blockModel, sliceDimension)
    /\ showWireframe \in BOOLEAN
    /\ call = NoCall
    /\ AppSettled

NextPick == PointerMove \/ PointerOut

SpecPick == InitPick /\ [][NextPick]_vars

\* C24: a pointer event with no valid block instance empties the selection:
\* the pointer leaving the mesh, a move whose event has no instance id, or
\* one whose instance id is beyond the index mapping.
C24_NoHitClearsSelection ==
    /\ call.fn = "handlePointerOut" => hoveredBlock = Null
    /\ (call.fn = "handlePointerMove" /\ ~call.hit.called) => hoveredBlock = Null

\* C25: for every instance ordinal k the picker reports block
\* instanceToBlockIndex[k] and the position at which instance k was emitted,
\* which is (x - nx/2, z - nz/2, y - ny/2) for the block's cell (x, y, z); the
\* quads of that block in the surface mesh are its face corners around the
\* same position.
C25_PickedPositionIsRenderPosition ==
    (call.fn = "handlePointerMove" /\ call.instanceId # Undefined
       /\ call.instanceId.value < RenderSet.count) =>
        LET k == call.instanceId.value + 1
            c == CellOfBlock(call.hit.blockIndex)
        IN  /\ call.hit.called
            /\ call.hit.blockIndex = RenderSet.instanceToBlockIndex[k]
            /\ call.hit.position = RenderSet.positions[k]
            /\ call.hit.position = << 2 * c[1] - blockModel.nx, 2 * c[3] - blockModel.nz,
                                      2 * c[2] - blockModel.ny >>
            /\ hoveredBlock = [index |-> call.hit.blockIndex,
                               position |-> call.hit.position]
            /\ minedBlocks.defined =>
                  LET quads == EmittedQuads(blockModel, minedBlocks.bits)
                      mesh == SurfaceMesh(blockModel, minedBlocks.bits, colorScheme)
                  IN  \A j \in 1..Len(quads) : quads[j].i = call.hit.blockIndex =>
                        \A n \in 1..4 :
                            mesh.vertices[4 * (j - 1) + n] =
                                Plus(call.hit.position, faces[quads[j].f].corners[n])

\* a boundary block of a solved 2x2x1 model is picked: its cell has x # y
\* and the mesh has quads for it
C25_Witness ==
    /\ call.fn = "handlePointerMove"
    /\ call.hit.called
    /\ blockModel.nx = 2 /\ blockModel.ny = 2
    /\ call.hit.blockIndex = 2
    /\ call.hit.position = <<-2, -1, 0>>
    /\ minedBlocks.defined
    /\ \E j \in 1..Len(EmittedQuads(blockModel, minedBlocks.bits)) :
          EmittedQuads(blockModel, minedBlocks.bits)[j].i = 2

(***************************************************************************)
(* SpecView: the events of the window: loads and solves (SpecApp), the     *)
(* view controls of Controls, pointer events over the instanced mesh.      *)
(* Controls is rendered when there is a model; its view mode, colour and   *)
(* surface-only controls when there is a solution (hasSolution).           *)
(***************************************************************************)
SetViewMode ==
    \E mode \in {"all", "mined", "unmined"} :
        /\ blockModel # Null /\ minedBlocks.defined
        /\ viewMode' = mode
        /\ call' = [fn |-> "setViewMode"]
        /\ UNCHANGED <<blockModel, minedBlocks, currentLayer, sliceDimension,
                       colorScheme, showWireframe, app, hoveredBlock, solver>>

SetColorScheme ==
    \E scheme \in {"value", "mined"} :
        /\ blockModel # Null /\ minedBlocks.defined
        /\ colorScheme' = scheme
        /\ call' = [fn |-> "setColorScheme"]
        /\ UNCHANGED <<blockModel, minedBlocks, viewMode, currentLayer, sliceDimension,
                       showWireframe, app, hoveredBlock, solver>>

SetShowWireframe ==
    \E checked \in BOOLEAN :
        /\ blockModel # Null /\ minedBlocks.defined
        /\ showWireframe' = checked
        /\ call' = [fn |-> "setShowWireframe"]
        /\ UNCHANGED <<blockModel, minedBlocks, viewMode, currentLayer, sliceDimension,
                       colorScheme, app, hoveredBlock, solver>>

\* handleDimensionChange
DimensionChange ==
    \E newDim \in {"x", "y", "z"} :
        /\ blockModel # Null
        /\ sliceDimension' = newDim
        /\ currentLayer' = NoLayer
        /\ call' = [fn |-> "handleDimensionChange"]
        /\ UNCHANGED <<blockModel, minedBlocks, viewMode, colorScheme, showWireframe,
                       app, hoveredBlock, solver>>

\* handleLayerChange: the slider runs from -1 to getMaxLayer()
LayerChange ==
    /\ blockModel # Null
    /\ \E value \in Layers(blockModel, sliceDimension) :
        currentLayer' = IF value = -1 THEN NoLayer ELSE value
    /\ call' = [fn |-> "handleLayerChange"]
    /\ UNCHANGED <<blockModel, minedBlocks, viewMode, sliceDimension, colorScheme,
                   showWireframe, app, hoveredBlock, solver>>

\* the loads and solves of SpecView: one path, grids along x, files of one
\* and of two lines, a solver that mines block 0 or fails
ViewDims == { d \in AppDims : d[2] = 1 /\ d[3] = 1 }

ViewLoadFile == LoadFileOf({Path("a.dat")}, ViewDims)

ViewLoadSettles == LoadSettlesWith({Return(<<"7">>), Return(<<"7", LF, "-", "5">>)})

ViewSolveSettles ==
    SolveSettlesWith({Throw([message |-> "Solver error"]), Return(<<"0">>)})

NextView ==
    \/ ViewLoadFile \/ ViewLoadSettles \/ Solve \/ ViewSolveSettles
    \/ SetViewMode \/ SetColorScheme \/ SetShowWireframe
    \/ DimensionChange \/ LayerChange
    \/ PointerMove \/ PointerOut

SpecView == InitApp /\ [][NextView]_vars

\* C26: a non-empty hoveredBlock holds a block index that is valid for the
\* displayed model and belongs to the displayed render set.
C26_HoveredBlockIsDisplayed ==
    hoveredBlock # Null =>
        /\ blockModel # Null
        /\ hoveredBlock.index \in 0..(Length(blockModel.values) - 1)
        /\ MeshShown
        /\ \E k \in 1..RenderSet.count :
              RenderSet.instanceToBlockIndex[k] = hoveredBlock.index

(***************************************************************************)
(* SpecStore: parseDatFile applied to files whose lines hold integers up   *)
(* to and beyond the range of an Int32Array element.                       *)
(***************************************************************************)
MaxStoreLines == 2

\* 7, -5, 2^31 - 1, 2^31, -2^31, -2^31 - 1, 2^32 + 7, and a line of text
StoreLines ==
    { <<"7">>, <<"-", "5">>,
      <<"2", "1", "4", "7", "4", "8", "3", "6", "4", "7">>,
      <<"2", "1", "4", "7", "4", "8", "3", "6", "4", "8">>,
      <<"-", "2", "1", "4", "7", "4", "8", "3", "6", "4", "8">>,
      <<"-", "2", "1", "4", "7", "4", "8", "3", "6", "4", "9">>,
      <<"4", "2", "9", "4", "9", "6", "7", "3", "0", "3">>,
      <<"x">> }

RECURSIVE StoreLineSeqs(_)
StoreLineSeqs(n) ==
    IF n = 0 THEN { <<>> }
    ELSE StoreLineSeqs(n - 1)
         \cup { Append(ls, l) : ls \in { m \in StoreLineSeqs(n - 1) : Len(m) = n - 1 },
                                l \in StoreLines }

StoreContents == { Join(ls, LF) : ls \in StoreLineSeqs(MaxStoreLines) }

\* FileUpload.handleLoad: nx > 0 && ny > 0 && nz > 0
StoreDims ==
    { d \in Dims \X Dims \X Dims : d[1] * d[2] * d[3] <= MaxStoreLines }

CallParseDatFileStore ==
    \E content \in StoreContents, d \in StoreDims :
        /\ call.fn = "none"
        /\ call' = [fn |-> "parseDatFile",
                    args |-> [content |-> content, nx |-> d[1], ny |-> d[2], nz |-> d[3]],
                    ret |-> parseDatFile(content, d[1], d[2], d[3])]
        /\ UNCHANGED <<blockModel, minedBlocks, view, app, hoveredBlock, solver>>

NextStore == CallParseDatFileStore

SpecStore == InitParse /\ [][NextStore]_vars

\* the signed decimal integer written on a line, as a sign and a magnitude
WrittenInteger(text) ==
    LET body == IF text[1] \in {"-", "+"} THEN Tail(text) ELSE text
        magnitude == DigitsWide(body, [hi |-> 0, lo |-> 0])
    IN  Wide(text[1] = "-", magnitude.hi, magnitude.lo)
\* an element of the values array equals the integer w
IsInteger(element, w) ==
    IF w.hi < HalfLimb THEN element = NumberOf(w)
    ELSE /\ w.negative /\ w.hi = HalfLimb /\ w.lo = 0
         /\ element = (-HalfLimb) * Limb

\* C30: every value accepted by parseDatFile is stored unchanged: for every
\* line that holds a signed decimal integer, of any magnitude, the element of
\* model.values at the position of the line equals that integer.
C30_ValuesStoredUnchanged ==
    (call.fn = "parseDatFile" /\ ~call.ret.threw) =>
        LET lines == FileLines(call.args.content)
        IN  \A i \in 1..Len(lines) :
                IsSignedDecimal(Trim(lines[i])) =>
                    IsInteger(Elem(call.ret.value.values, i - 1),
                              WrittenInteger(Trim(lines[i])))

====
